---- MODULE Spec2Model ----
(***************************************************************************)
(* Health-metric extraction, source unification, bounded-staleness cache   *)
(* and latest-value aggregation of the medicalai backend.                  *)
(*                                                                         *)
(* Numbers with one decimal are kept in tenths (5.4 is 54).  A calendar    *)
(* date is the record [y, m, d]; the missing date (None / NaT) is NoDate.  *)
(***************************************************************************)
EXTENDS Integers, Sequences, FiniteSets, TLC

VARIABLES
    now,              \* wall clock, seconds since the process was started
    files,            \* PROCESSED_DATA_DIR: file name -> list of dicts
    manual,           \* record store: HealthRecord rows, insertion order
    apple,            \* wearable store: AppleHealthData rows, insertion order
    cache,            \* TrendAnalyzer._data_cache
    cacheTs,          \* TrendAnalyzer._cache_timestamp
    trend_analyzer,   \* the instance api/analysis.py holds (self.data)
    metrics_analyzer, \* the HealthMetricsAnalyzer instance api/analysis.py holds
    text,             \* the document text handed to the extractor
    calls,            \* the constructions and refreshes in progress, per thread
    last              \* what the last operation did and returned

vars == <<now, files, manual, apple, cache, cacheTs, trend_analyzer,
          metrics_analyzer, text, calls, last>>

(***************************************************************************)
(* Bounds of the model.                                                    *)
(***************************************************************************)
MaxLines == 3        \* lines of a document text
MaxIndent == 1       \* leading blanks a line may carry
MaxTime == 300       \* the clock stops here
MaxFiles == 1        \* persisted files in the directory
MaxManual == 1       \* manual records in the record store
MaxApple == 1        \* wearable records in the wearable store
MaxThreads == 2      \* threads that construct or refresh at the same time

(***************************************************************************)
(* Basic values.                                                           *)
(***************************************************************************)
None == "None"
NoDate == [y |-> 0, m |-> 0, d |-> 0]
MkDate(y, m, d) == [y |-> y, m |-> m, d |-> d]

\* a plain float, in tenths
Scalar(v) == [kind |-> "scalar", a |-> v, b |-> 0]
\* the dict {'systolic': s, 'diastolic': d}
Pair(s, d) == [kind |-> "pair", a |-> s, b |-> d]
\* None / NaN
NoValue == [kind |-> "none", a |-> 0, b |-> 0]

\* the text of a decimal number: integer part, separator, one fraction digit
Num(ip, sep, fp) == [ip |-> ip, sep |-> sep, fp |-> fp]
\* text that is no number ("120/80")
NotANumber == [ip |-> 0, sep |-> "/", fp |-> 0]

(***************************************************************************)
(* The pattern registry of the extractor, in dictionary order.             *)
(***************************************************************************)
MetricOrder ==
    << "blood_pressure", "glucose", "hba1c", "cholesterol", "ldl", "hdl",
       "triglycerides", "creatinine", "bilirubin", "alt", "ast", "hemoglobin",
       "erythrocytes", "leukocytes", "platelets", "bmi", "weight", "height",
       "pulse", "temperature" >>

\* date tokens a line may carry, by textual form; a, b, c are the three
\* numbers in the order they are written, w3 the digits of the third
NoTok == [form |-> "none", a |-> 0, b |-> 0, c |-> 0, w3 |-> 0]
Dmy4(d, m, y) == [form |-> "dmy4", a |-> d, b |-> m, c |-> y, w3 |-> 4]
IsoDash(y, m, d) == [form |-> "iso_dash", a |-> y, b |-> m, c |-> d, w3 |-> 2]
IsoSlash(y, m, d) == [form |-> "iso_slash", a |-> y, b |-> m, c |-> d, w3 |-> 2]
Dmy2(d, m, yy) == [form |-> "dmy2", a |-> d, b |-> m, c |-> yy, w3 |-> 2]

IsLeap(y) == (y % 4 = 0 /\ y % 100 # 0) \/ y % 400 = 0

DaysInMonth(y, m) ==
    IF m \in {4, 6, 9, 11} THEN 30
    ELSE IF m = 2 THEN (IF IsLeap(y) THEN 29 ELSE 28)
    ELSE 31

\* datetime(year, month, day) succeeds
ValidDate(y, m, d) ==
    /\ y >= 1 /\ y <= 9999
    /\ m >= 1 /\ m <= 12
    /\ d >= 1 /\ d <= DaysInMonth(y, m)

\* two-digit year: 90..99 are 19xx, the rest 20xx
TwoDigitYear(yy) == IF yy >= 90 THEN 1900 + yy ELSE 2000 + yy

\* datetime(...).strftime('%Y-%m-%d'), or nothing when datetime() raises
TryDate(y, m, d) == IF ValidDate(y, m, d) THEN MkDate(y, m, d) ELSE NoDate

\* _extract_date: the three date patterns tried in order on the token
ExtractDate(tok) ==
    CASE tok.form = "dmy4" ->
            \* pattern 1 matches, the year has four digits
            TryDate(tok.c, tok.b, tok.a)
      [] tok.form = "dmy2" ->
            \* only pattern 3 matches
            TryDate(TwoDigitYear(tok.c), tok.b, tok.a)
      [] tok.form = "iso_dash" ->
            \* pattern 2 matches; its third group has one or two digits, so
            \* it is read as day.month.yy with the year as the day, which
            \* datetime() refuses; pattern 3 has no '-' separator
            IF tok.w3 = 2 THEN TryDate(TwoDigitYear(tok.c), tok.b, tok.a)
            ELSE NoDate
      [] tok.form = "iso_slash" ->
            \* pattern 2 as above; then pattern 3 matches the tail
            \* "yy/mm/dd" of the token when the day has two digits
            IF tok.w3 = 2 /\ TryDate(TwoDigitYear(tok.c), tok.b, tok.a) # NoDate
              THEN TryDate(TwoDigitYear(tok.c), tok.b, tok.a)
            ELSE IF tok.w3 = 2
              THEN TryDate(TwoDigitYear(tok.c), tok.b, tok.a % 100)
            ELSE NoDate
      [] OTHER -> NoDate

\* float(str.replace(',', '.')) of a captured group, in tenths
ParseFloat(num) ==
    IF num.sep \in {"", ".", ","} THEN Scalar(num.ip * 10 + num.fp) ELSE NoValue

\* _parse_metric_value: the value of a match, or nothing
ParseMetricValue(metric_name, groups) ==
    IF metric_name = "blood_pressure"
      THEN Pair(groups[1].ip * 10, groups[2].ip * 10)
      ELSE ParseFloat(groups[1])

(***************************************************************************)
(* Lines of a document.  A line is described by what the patterns find in  *)
(* it: its date token and, per metric, the groups captured by the first    *)
(* pattern of that metric that matches (re.search, then break).            *)
(***************************************************************************)
Hit(metric_name, groups) == [metric |-> metric_name, groups |-> groups]

LineBodies ==
    { [body |-> "Datum 01.02.2024", date |-> Dmy4(1, 2, 2024), hits |-> {}],
      [body |-> "glukoza 5,4", date |-> NoTok,
       hits |-> {Hit("glucose", <<Num(5, ",", 4)>>)}],
      [body |-> "CHOL 4.8 LDL 2,8", date |-> NoTok,
       hits |-> {Hit("cholesterol", <<Num(4, ".", 8)>>),
                 Hit("ldl", <<Num(2, ",", 8)>>)}],
      [body |-> "TK 120/80", date |-> NoTok,
       hits |-> {Hit("blood_pressure", <<Num(120, "", 0), Num(80, "", 0)>>)}],
      [body |-> "05.02.2024 P 72/min", date |-> Dmy4(5, 2, 2024),
       hits |-> {Hit("pulse", <<Num(72, "", 0)>>)}] }

Lines ==
    { [lead |-> l, body |-> b.body, date |-> b.date, hits |-> b.hits] :
        l \in 0..MaxIndent, b \in LineBodies }

\* line.strip()
Strip(line) == line.body

\* lines[i:min(i+21, len(lines))] holds this many lines at most
ContextLines == 21

Min(a, b) == IF a < b THEN a ELSE b

Observation(metric_name, value, date, raw_text) ==
    [metric |-> metric_name, value |-> value, date |-> date, raw_text |-> raw_text]

\* _extract_from_line: one observation per metric whose pattern matches and
\* whose value parses, in registry order, dated by the line or the context
ExtractFromLine(line, context_date) ==
    LET line_date == ExtractDate(line.date)
        date == IF line_date # NoDate THEN line_date ELSE context_date
        acc[i \in 0..Len(MetricOrder)] ==
            IF i = 0 THEN <<>>
            ELSE LET metric_name == MetricOrder[i]
                     matches == {h \in line.hits : h.metric = metric_name}
                 IN  IF matches = {} THEN acc[i - 1]
                     ELSE LET value == ParseMetricValue(metric_name,
                                           (CHOOSE h \in matches : TRUE).groups)
                          IN  IF value # NoValue
                                THEN Append(acc[i - 1],
                                       Observation(metric_name, value, date, Strip(line)))
                                ELSE acc[i - 1]
    IN  acc[Len(MetricOrder)]

\* first pass of extract_health_metrics: every date-bearing line dates
\* itself and the lines after it, up to ContextLines lines in all
DatedPass(lines) ==
    LET n == Len(lines)
        window[i \in 1..n, j \in 0..n] ==
            \* the observations of lines i..j under the date of line i
            IF j < i THEN <<>>
            ELSE window[i, j - 1] \o ExtractFromLine(lines[j], ExtractDate(lines[i].date))
        acc[i \in 0..n] ==
            IF i = 0 THEN <<>>
            ELSE IF ExtractDate(lines[i].date) # NoDate
              THEN acc[i - 1] \o window[i, Min(i + ContextLines - 1, n)]
              ELSE acc[i - 1]
    IN  acc[n]

\* the guard of the second pass: no record with this raw_text yet
MissingRawText(metrics, metric) ==
    ~ \E k \in 1..Len(metrics) : metrics[k].raw_text = metric.raw_text

\* second pass of extract_health_metrics: every line again, without a date
UndatedPass(lines, dated) ==
    LET n == Len(lines)
        add(metrics, found) ==
            LET step[k \in 0..Len(found)] ==
                    IF k = 0 THEN metrics
                    ELSE IF MissingRawText(step[k - 1], found[k])
                      THEN Append(step[k - 1], found[k])
                      ELSE step[k - 1]
            IN  step[Len(found)]
        acc[i \in 0..n] ==
            IF i = 0 THEN dated
            ELSE add(acc[i - 1], ExtractFromLine(lines[i], NoDate))
    IN  acc[n]

\* extract_health_metrics: the list it returns (and saves)
ExtractHealthMetrics(lines) == UndatedPass(lines, DatedPass(lines))

(***************************************************************************)
(* Persisted files, the record store and the wearable store.               *)
(***************************************************************************)
\* extracted_data_<%Y%m%d_%H%M%S>.json: one name per second of the clock
ExtractedName(t) == [prefix |-> "extracted_data", stem |-> "", stamp |-> t]
\* csv_import_<stem>_<%Y%m%d_%H%M%S>.json
CsvImportName(stem, t) == [prefix |-> "csv_import", stem |-> stem, stamp |-> t]

\* _to_float: float(str(value).replace(',', '.')), None when float() raises
ToFloat(value) ==
    IF value.sep \in {"", ".", ","} THEN Scalar(value.ip * 10 + value.fp)
    ELSE NoValue

\* float(row['value']) of the CSV importer: no comma is replaced
CsvFloat(value) ==
    IF value.sep \in {"", "."} THEN Scalar(value.ip * 10 + value.fp) ELSE NoValue

\* apple_to_metric_map
AppleTypes ==
    { "HKQuantityTypeIdentifierBodyMass", "HKQuantityTypeIdentifierHeight",
      "HKQuantityTypeIdentifierHeartRate",
      "HKQuantityTypeIdentifierBloodPressureSystolic",
      "HKQuantityTypeIdentifierBloodPressureDiastolic",
      "HKQuantityTypeIdentifierBodyMassIndex",
      "HKQuantityTypeIdentifierBloodGlucose" }

AppleToMetric(record_type) ==
    CASE record_type = "HKQuantityTypeIdentifierBodyMass" -> "weight"
      [] record_type = "HKQuantityTypeIdentifierHeight" -> "height"
      [] record_type = "HKQuantityTypeIdentifierHeartRate" -> "heart_rate"
      [] record_type = "HKQuantityTypeIdentifierBloodPressureSystolic" ->
             "blood_pressure_systolic"
      [] record_type = "HKQuantityTypeIdentifierBloodPressureDiastolic" ->
             "blood_pressure_diastolic"
      [] record_type = "HKQuantityTypeIdentifierBodyMassIndex" -> "bmi"
      [] record_type = "HKQuantityTypeIdentifierBloodGlucose" -> "glucose"
      [] OTHER -> None

\* no synonym is folded
FoldNothing(metric_name) == metric_name

\* the synonym folding of _load_data
FoldPulse(metric_name) == IF metric_name = "pulse" THEN "heart_rate" ELSE metric_name

\* pd.to_datetime(errors='coerce'): a timestamp ordered as the calendar is,
\* 0 for NaT
NaT == 0
ToDatetime(date) ==
    IF date = NoDate \/ ~ValidDate(date.y, date.m, date.d) THEN NaT
    ELSE date.y * 10000 + date.m * 100 + date.d

\* strftime('%Y-%m-%d') of a timestamp
Strftime(ts) == MkDate(ts \div 10000, (ts \div 100) % 100, ts % 100)

\* pd.to_numeric(errors='coerce'): numbers stay, dicts and None become NaN
ToNumeric(value) == IF value.kind = "scalar" THEN value ELSE NoValue

Row(date, metric_name, value, source) ==
    [date |-> date, metric |-> metric_name, value |-> value, source |-> source]

\* the names glob("extracted_data_*.json") yields, by stamp
GlobExtracted(dir) ==
    LET names == {n \in DOMAIN dir : n.prefix = "extracted_data"}
        ordered[k \in 0..Cardinality(names)] ==
            IF k = 0 THEN <<>>
            ELSE LET done == {ordered[k - 1][i] : i \in 1..(k - 1)}
                     next == CHOOSE n \in names \ done :
                                \A o \in names \ done : n.stamp <= o.stamp
                 IN  Append(ordered[k - 1], next)
    IN  ordered[Cardinality(names)]

\* step 1 of _load_data: the dicts of every extracted_data file, pulse folded
FileMetrics(dir) ==
    LET names == GlobExtracted(dir)
        one(metrics) ==
            [i \in 1..Len(metrics) |->
                Row(metrics[i].date, FoldPulse(metrics[i].metric),
                    metrics[i].value, "nan")]
        acc[k \in 0..Len(names)] ==
            IF k = 0 THEN <<>> ELSE acc[k - 1] \o one(dir[names[k]])
    IN  acc[Len(names)]

\* step 2 of _load_data: the manual records, pulse folded, value via _to_float
ManualMetrics(records) ==
    [i \in 1..Len(records) |->
        Row(records[i].record_date, FoldPulse(records[i].metric_type),
            ToFloat(records[i].value), "manual")]

\* step 3 of _load_data: the wearable records of the mapped types that
\* carry a value
AppleMetrics(records) ==
    LET keep == SelectSeq(records,
                    LAMBDA r : r.record_type \in AppleTypes /\ r.value # NoValue)
    IN  [i \in 1..Len(keep) |->
            Row(keep[i].start_date, AppleToMetric(keep[i].record_type),
                keep[i].value, "apple_health")]

\* the frame left in the order the sources were read
KeepOrder(rows) == rows

\* df.sort_values('date') on a frame this small: insertion sort, ties keep
\* their order
SortByDate(rows) ==
    LET insert(sorted, r) ==
            LET k == Cardinality({i \in 1..Len(sorted) : sorted[i].date <= r.date})
            IN  SubSeq(sorted, 1, k) \o <<r>> \o SubSeq(sorted, k + 1, Len(sorted))
        acc[i \in 0..Len(rows)] ==
            IF i = 0 THEN <<>> ELSE insert(acc[i - 1], rows[i])
    IN  acc[Len(rows)]

\* the frame built from all_metrics: dates and values coerced, rows without
\* a date or a value dropped, sorted by date
BuildFrame(all_metrics) ==
    LET coerced == [i \in 1..Len(all_metrics) |->
                       Row(ToDatetime(all_metrics[i].date), all_metrics[i].metric,
                           ToNumeric(all_metrics[i].value), all_metrics[i].source)]
        kept == SelectSeq(coerced, LAMBDA r : r.date # NaT /\ r.value # NoValue)
    IN  SortByDate(kept)

\* the reads of _load_data that raise during one call: persisted files
\* whose open or json.load raises, and store queries that raise
NoRaise == [files |-> {}, queries |-> {}]

\* one try block around all three reads: any read that raises leaves
\* nothing
LoadDataAllOrNothing(dir, manual_records, apple_records, raising) ==
    IF raising = NoRaise
      THEN BuildFrame(FileMetrics(dir) \o ManualMetrics(manual_records)
                        \o AppleMetrics(apple_records))
      ELSE <<>>

\* _load_data with its three try/except blocks: a file that raises is
\* skipped inside the loop, a query that raises contributes no record, and
\* the frame is built from what was collected
LoadDataRaising(dir, manual_records, apple_records, raising) ==
    LET readable == [n \in DOMAIN dir \ raising.files |-> dir[n]]
        from_manual == IF "manual" \in raising.queries THEN <<>>
                       ELSE ManualMetrics(manual_records)
        from_apple == IF "apple_health" \in raising.queries THEN <<>>
                      ELSE AppleMetrics(apple_records)
    IN  BuildFrame(FileMetrics(readable) \o from_manual \o from_apple)

\* _load_data when nothing raises: the unified series
LoadData(dir, manual_records, apple_records) ==
    LoadDataRaising(dir, manual_records, apple_records, NoRaise)

(***************************************************************************)
(* The bounded-staleness cache of TrendAnalyzer.                           *)
(***************************************************************************)
_cache_ttl == 300

\* _data_cache / _cache_timestamp hold None
NoFrame == [present |-> FALSE, rows |-> <<>>]
Frame(rows) == [present |-> TRUE, rows |-> rows]
NoTime == -1

\* the TTL comparison turned around
CacheIsCurrentFlipped(data_cache, cache_timestamp, t) ==
    /\ data_cache.present
    /\ cache_timestamp # NoTime
    /\ t - cache_timestamp > _cache_ttl

\* the test of __init__: a cache exists, has a timestamp, and is younger
\* than the TTL
CacheIsCurrent(data_cache, cache_timestamp, t) ==
    /\ data_cache.present
    /\ cache_timestamp # NoTime
    /\ t - cache_timestamp < _cache_ttl

AllSources == {"files", "manual", "apple_health"}

\* TrendAnalyzer.__init__ at time t: the instance's data, the class-level
\* cache it leaves, and the sources it read
ConstructRaising(data_cache, cache_timestamp, t, dir, manual_records, apple_records, raising) ==
    IF CacheIsCurrent(data_cache, cache_timestamp, t)
      THEN [data |-> data_cache.rows, builtAt |-> cache_timestamp,
            cache |-> data_cache, ts |-> cache_timestamp, reads |-> {}]
      ELSE LET data == LoadDataRaising(dir, manual_records, apple_records, raising)
           IN  [data |-> data, builtAt |-> t,
                cache |-> Frame(data), ts |-> t, reads |-> AllSources]

\* TrendAnalyzer.__init__ when no read raises
Construct(data_cache, cache_timestamp, t, dir, manual_records, apple_records) ==
    ConstructRaising(data_cache, cache_timestamp, t, dir, manual_records,
                     apple_records, NoRaise)

\* a refresh that forgets to clear the class-level cache
InvalidateNothing(data_cache, cache_timestamp) ==
    [cache |-> data_cache, ts |-> cache_timestamp]

\* the two assignments refresh_trend_cache makes before it constructs
Invalidate(data_cache, cache_timestamp) == [cache |-> NoFrame, ts |-> NoTime]

(***************************************************************************)
(* analyze_trends.                                                         *)
(***************************************************************************)
NoArg == "None"

\* only the metric filter is applied
FilterRowsByMetricOnly(rows, metric_name, start_date, end_date) ==
    SelectSeq(rows, LAMBDA r : metric_name = NoArg \/ r.metric = metric_name)

\* the rows left by the date and metric filters
FilterRows(rows, metric_name, start_date, end_date) ==
    SelectSeq(rows, LAMBDA r :
        /\ (start_date = NoDate \/ ToDatetime(start_date) = NaT
              \/ r.date >= ToDatetime(start_date))
        /\ (end_date = NoDate \/ ToDatetime(end_date) = NaT
              \/ r.date <= ToDatetime(end_date))
        /\ (metric_name = NoArg \/ r.metric = metric_name))

\* df['metric'].unique(): the metrics in order of first appearance
UniqueMetrics(rows) ==
    LET acc[i \in 0..Len(rows)] ==
            IF i = 0 THEN <<>>
            ELSE IF \E k \in 1..Len(acc[i - 1]) : acc[i - 1][k] = rows[i].metric
              THEN acc[i - 1]
              ELSE Append(acc[i - 1], rows[i].metric)
    IN  acc[Len(rows)]

SeqMin(vals) == CHOOSE v \in {vals[i] : i \in 1..Len(vals)} :
                    \A i \in 1..Len(vals) : v <= vals[i]
SeqMax(vals) == CHOOSE v \in {vals[i] : i \in 1..Len(vals)} :
                    \A i \in 1..Len(vals) : v >= vals[i]

SeqSum(vals) ==
    LET acc[i \in 0..Len(vals)] == IF i = 0 THEN 0 ELSE acc[i - 1] + vals[i]
    IN  acc[Len(vals)]

\* a quotient of integers that is kept exact
Ratio(num, den) == [num |-> num, den |-> den]

\* the float of a cell for the regression of _calculate_trend: a number as
\* it is, a dict by its systolic component
TrendValues(data) ==
    LET usable == SelectSeq(data, LAMBDA r : r.value.kind \in {"scalar", "pair"})
    IN  [i \in 1..Len(usable) |-> usable[i].value.a]

\* np.polyfit(x, values, 1)[0] over x = 0 .. n-1, as the quotient
\* SlopeNum / SlopeDen of the normal equations (values in tenths, so the
\* quotient is ten times the slope)
SlopeNum(values) ==
    LET n == Len(values)
        xy == [i \in 1..n |-> (i - 1) * values[i]]
        x == [i \in 1..n |-> i - 1]
    IN  n * SeqSum(xy) - SeqSum(x) * SeqSum(values)

SlopeDen(n) ==
    LET x == [i \in 1..n |-> i - 1]
        xx == [i \in 1..n |-> (i - 1) * (i - 1)]
    IN  n * SeqSum(xx) - SeqSum(x) * SeqSum(x)

\* the thresholds turned around
TrendOfSlopeInverted(num, den) ==
    IF num > den THEN "decreasing"
    ELSE IF num < -den THEN "increasing"
    ELSE "stable"

\* slope > 0.1, slope < -0.1, else stable (den > 0; num / den is ten times
\* the slope)
TrendOfSlope(num, den) ==
    IF num > den THEN "increasing"
    ELSE IF num < -den THEN "decreasing"
    ELSE "stable"

\* _calculate_trend over the rows of one metric (every row of the unified
\* series carries a date)
CalculateTrend(data) ==
    IF Len(data) < 2 THEN "insufficient_data"
    ELSE LET dated == SelectSeq(data, LAMBDA r : r.date # NaT)
             values == TrendValues(SortByDate(dated))
         IN  IF Len(dated) < 2 \/ Len(values) < 2 THEN "insufficient_data"
             ELSE TrendOfSlope(SlopeNum(values), SlopeDen(Len(values)))

\* _get_values_over_time
GetValuesOverTime(data) ==
    LET sorted == SortByDate(SelectSeq(data, LAMBDA r : r.date # NaT))
        usable == SelectSeq(sorted, LAMBDA r : r.value.kind \in {"scalar", "pair"})
    IN  [i \in 1..Len(usable) |->
            [date |-> Strftime(usable[i].date), value |-> usable[i].value.a]]

\* normal_ranges of _interpret_metric, in tenths; hdl has no upper end
NormalRanges ==
    [ glucose |-> [low |-> 39, high |-> 56, open |-> FALSE],
      hba1c |-> [low |-> 0, high |-> 57, open |-> FALSE],
      cholesterol |-> [low |-> 0, high |-> 52, open |-> FALSE],
      ldl |-> [low |-> 0, high |-> 30, open |-> FALSE],
      hdl |-> [low |-> 10, high |-> 0, open |-> TRUE],
      triglycerides |-> [low |-> 0, high |-> 17, open |-> FALSE],
      bmi |-> [low |-> 185, high |-> 249, open |-> FALSE] ]

\* _interpret_metric
InterpretMetric(metric_name, latest) ==
    IF latest.kind = "none" THEN "no_data"
    ELSE IF metric_name \in DOMAIN NormalRanges
      THEN IF latest.a < NormalRanges[metric_name].low THEN "below_normal"
           ELSE IF ~NormalRanges[metric_name].open
                     /\ latest.a > NormalRanges[metric_name].high
             THEN "above_normal"
           ELSE "normal"
    ELSE "unknown"

\* the branches of _interpret_blood_pressure taken in another order: the
\* two 'or' branches before the two 'and' branches
InterpretBloodPressureReordered(systolic, diastolic) ==
    IF systolic = <<>> \/ diastolic = <<>> THEN "no_data"
    ELSE LET latest_sys == systolic[Len(systolic)]
             latest_dia == diastolic[Len(diastolic)]
         IN  IF latest_sys < 1400 \/ latest_dia < 900 THEN "hypertension_stage_1"
             ELSE IF latest_sys < 1800 \/ latest_dia < 1200 THEN "hypertension_stage_2"
             ELSE IF latest_sys < 1200 /\ latest_dia < 800 THEN "normal"
             ELSE IF latest_sys < 1300 /\ latest_dia < 800 THEN "elevated"
             ELSE "hypertension_crisis"

\* _interpret_blood_pressure (mmHg in tenths)
InterpretBloodPressure(systolic, diastolic) ==
    IF systolic = <<>> \/ diastolic = <<>> THEN "no_data"
    ELSE LET latest_sys == systolic[Len(systolic)]
             latest_dia == diastolic[Len(diastolic)]
         IN  IF latest_sys < 1200 /\ latest_dia < 800 THEN "normal"
             ELSE IF latest_sys < 1300 /\ latest_dia < 800 THEN "elevated"
             ELSE IF latest_sys < 1400 \/ latest_dia < 900 THEN "hypertension_stage_1"
             ELSE IF latest_sys < 1800 \/ latest_dia < 1200 THEN "hypertension_stage_2"
             ELSE "hypertension_crisis"

\* latest / mean / min / max of one component; all None for an empty list
NoStats ==
    [present |-> FALSE, latest |-> 0, mean |-> Ratio(0, 1), min |-> 0, max |-> 0]

ComponentStats(values) ==
    IF values = <<>> THEN NoStats
    ELSE [present |-> TRUE, latest |-> values[Len(values)],
          mean |-> Ratio(SeqSum(values), Len(values)),
          min |-> SeqMin(values), max |-> SeqMax(values)]

\* np.std of more than one value, else 0: given by its square, the
\* population variance
Std(values) ==
    LET n == Len(values)
        squares == [i \in 1..n |-> values[i] * values[i]]
    IN  IF n > 1
          THEN Ratio(n * SeqSum(squares) - SeqSum(values) * SeqSum(values), n * n)
          ELSE Ratio(0, 1)

\* the fields an entry of the trends dict can carry
Entry(metric_name, kind) ==
    [metric |-> metric_name, kind |-> kind, error |-> "",
     count |-> 0, latest |-> NoValue, mean |-> Ratio(0, 1), min |-> 0, max |-> 0,
     std |-> Ratio(0, 1), trend |-> "", values_over_time |-> <<>>,
     interpretation |-> "", systolic |-> NoStats, diastolic |-> NoStats]

\* {"error": ...}
ErrorEntry(metric_name, message) ==
    [Entry(metric_name, "error") EXCEPT !.error = message]

\* _analyze_blood_pressure: only dict values are collected
AnalyzeBloodPressure(data) ==
    LET pairs == SelectSeq(data, LAMBDA r : r.value.kind = "pair")
        systolic_values == [i \in 1..Len(pairs) |-> pairs[i].value.a]
        diastolic_values == [i \in 1..Len(pairs) |-> pairs[i].value.b]
    IN  [Entry("blood_pressure", "blood_pressure") EXCEPT
            !.count = Len(pairs),
            !.latest = IF pairs = <<>> THEN NoValue ELSE pairs[Len(pairs)].value,
            !.systolic = ComponentStats(systolic_values),
            !.diastolic = ComponentStats(diastolic_values),
            !.interpretation =
                InterpretBloodPressure(systolic_values, diastolic_values)]

\* _analyze_single_metric; raises tells whether something inside its try
\* block raises, which the except clause turns into an error entry
AnalyzeSingleMetric(metric_name, data, raises) ==
    IF data = <<>> THEN ErrorEntry(metric_name, "No data for this metric")
    ELSE IF raises THEN ErrorEntry(metric_name, "str(e)")
    ELSE IF metric_name = "blood_pressure" THEN AnalyzeBloodPressure(data)
    ELSE LET values == SelectSeq(data, LAMBDA r : r.value.kind # "none")
             numeric == SelectSeq(values, LAMBDA r : r.value.kind = "scalar")
             numeric_values == [i \in 1..Len(numeric) |-> numeric[i].value.a]
             latest == Scalar(numeric_values[Len(numeric_values)])
         IN  IF values = <<>> THEN ErrorEntry(metric_name, "No valid values")
             ELSE IF numeric = <<>> THEN ErrorEntry(metric_name, "No numeric values")
             ELSE [Entry(metric_name, "scalar") EXCEPT
                     !.count = Len(numeric_values),
                     !.latest = latest,
                     !.mean = Ratio(SeqSum(numeric_values), Len(numeric_values)),
                     !.min = SeqMin(numeric_values),
                     !.max = SeqMax(numeric_values),
                     !.std = Std(numeric_values),
                     !.trend = CalculateTrend(data),
                     !.values_over_time = GetValuesOverTime(data),
                     !.interpretation = InterpretMetric(metric_name, latest)]

\* no except clause: one analysis that raises aborts the request
AnalyzeTrendsAborting(data, metric_name, start_date, end_date, raising) ==
    LET df == FilterRows(data, metric_name, start_date, end_date)
        names == UniqueMetrics(df)
    IN  IF data = <<>>
          THEN [kind |-> "no_data_message", keys |-> {"trends", "message"},
                trends |-> {}]
          ELSE IF df = <<>> \/ \E k \in 1..Len(names) : names[k] \in raising
            THEN [kind |-> "error_no_data", keys |-> {"error", "message"},
                  trends |-> {}]
            ELSE [kind |-> "trends", keys |-> {names[k] : k \in 1..Len(names)},
                  trends |-> { AnalyzeSingleMetric(names[k],
                                 SelectSeq(df, LAMBDA r : r.metric = names[k]), FALSE) :
                               k \in 1..Len(names) }]

\* the test for an empty series left out
AnalyzeTrendsUnguarded(data, metric_name, start_date, end_date, raising) ==
    LET df == FilterRows(data, metric_name, start_date, end_date)
        names == UniqueMetrics(df)
    IN  IF df = <<>>
          THEN [kind |-> "error_no_data", keys |-> {"error", "message"},
                trends |-> {}]
          ELSE [kind |-> "trends", keys |-> {names[k] : k \in 1..Len(names)},
                trends |-> { AnalyzeSingleMetric(names[k],
                               SelectSeq(df, LAMBDA r : r.metric = names[k]),
                               names[k] \in raising) :
                             k \in 1..Len(names) }]

\* analyze_trends over self.data; the analysis of the metrics in raising
\* raises. keys are the keys of the dict returned: "trends" and "message"
\* for an empty series, "error" and "message" when the filters leave no row,
\* else the metric names
AnalyzeTrendsRaising(data, metric_name, start_date, end_date, raising) ==
    IF data = <<>>
      THEN [kind |-> "no_data_message", keys |-> {"trends", "message"}, trends |-> {}]
      ELSE LET df == FilterRows(data, metric_name, start_date, end_date)
               names == UniqueMetrics(df)
           IN  IF df = <<>>
                 THEN [kind |-> "error_no_data", keys |-> {"error", "message"},
                       trends |-> {}]
                 ELSE [kind |-> "trends",
                       keys |-> {names[k] : k \in 1..Len(names)},
                       trends |-> { AnalyzeSingleMetric(names[k],
                                      SelectSeq(df, LAMBDA r : r.metric = names[k]),
                                      names[k] \in raising) :
                                    k \in 1..Len(names) }]

\* analyze_trends when no analysis raises
AnalyzeTrends(data, metric_name, start_date, end_date) ==
    AnalyzeTrendsRaising(data, metric_name, start_date, end_date, {})

\* get_summary: the metrics counted and named, those whose interpretation
\* contains 'above_normal' or 'hypertension', and those whose interpretation
\* is 'normal' or 'improving'
GetSummary(trends) ==
    [ total_metrics |-> Cardinality(trends),
      metrics_analyzed |-> {e.metric : e \in trends},
      concerning_trends |->
          { e.metric : e \in { x \in trends :
                x.interpretation \in {"above_normal", "hypertension_stage_1",
                                      "hypertension_stage_2", "hypertension_crisis"} } },
      positive_trends |->
          { e.metric : e \in { x \in trends :
                x.interpretation \in {"normal", "improving"} } } ]

(***************************************************************************)
(* HealthMetricsAnalyzer.                                                  *)
(***************************************************************************)
\* _load_all_data: the dicts of every extracted_data file, dates coerced
LoadAllData(dir) ==
    LET names == GlobExtracted(dir)
        one(metrics) ==
            [i \in 1..Len(metrics) |->
                Row(ToDatetime(metrics[i].date), metrics[i].metric,
                    metrics[i].value, "nan")]
        acc[k \in 0..Len(names)] ==
            IF k = 0 THEN <<>> ELSE acc[k - 1] \o one(dir[names[k]])
    IN  acc[Len(names)]

\* the warning and alert thresholds of _get_metric_status, in tenths
Thresholds ==
    [ glucose |-> [warning |-> 56, alert |-> 70],
      hba1c |-> [warning |-> 57, alert |-> 65],
      cholesterol |-> [warning |-> 52, alert |-> 62],
      ldl |-> [warning |-> 30, alert |-> 40],
      triglycerides |-> [warning |-> 17, alert |-> 23],
      bmi |-> [warning |-> 250, alert |-> 300] ]

\* _get_metric_status
GetMetricStatus(metric_name, value) ==
    IF value.kind = "none" THEN "unknown"
    ELSE IF metric_name = "blood_pressure" /\ value.kind = "pair"
      THEN IF value.a >= 1400 \/ value.b >= 900 THEN "alert"
           ELSE IF value.a >= 1300 \/ value.b >= 800 THEN "warning"
           ELSE "normal"
    ELSE IF metric_name \in DOMAIN Thresholds /\ value.kind = "scalar"
      THEN IF value.a >= Thresholds[metric_name].alert THEN "alert"
           ELSE IF value.a >= Thresholds[metric_name].warning THEN "warning"
           ELSE "normal"
    ELSE "normal"

\* get_latest_metrics without its dropna: sort_values puts the rows without
\* a date last, so iloc[-1] is one of them whenever there is one
GetLatestMetricsKeepingUndated(data) ==
    IF data = <<>>
      THEN [error |-> TRUE, metrics |-> {}]
      ELSE LET names == UniqueMetrics(data)
               of(metric_name) ==
                   SelectSeq(data, LAMBDA r : r.metric = metric_name)
               sorted(metric_name) ==
                   SortByDate(SelectSeq(of(metric_name), LAMBDA r : r.date # NaT))
                     \o SelectSeq(of(metric_name), LAMBDA r : r.date = NaT)
               entry(metric_name) ==
                   LET rows == sorted(metric_name)
                       latest_row == rows[Len(rows)]
                   IN  [metric |-> metric_name, value |-> latest_row.value,
                        date |-> IF latest_row.date = NaT THEN NoDate
                                 ELSE Strftime(latest_row.date),
                        status |-> GetMetricStatus(metric_name, latest_row.value)]
           IN  [error |-> FALSE,
                metrics |-> { entry(names[k]) : k \in 1..Len(names) }]

\* get_latest_metrics over self.data: per metric, the last dated row
GetLatestMetrics(data) ==
    IF data = <<>>
      THEN [error |-> TRUE, metrics |-> {}]
      ELSE LET names == UniqueMetrics(data)
               dated(metric_name) ==
                   SortByDate(SelectSeq(data,
                       LAMBDA r : r.metric = metric_name /\ r.date # NaT))
               entry(metric_name) ==
                   LET rows == dated(metric_name)
                       latest_row == rows[Len(rows)]
                   IN  [metric |-> metric_name, value |-> latest_row.value,
                        date |-> Strftime(latest_row.date),
                        status |-> GetMetricStatus(metric_name, latest_row.value)]
           IN  [error |-> FALSE,
                metrics |-> { entry(names[k]) :
                                k \in {j \in 1..Len(names) : dated(names[j]) # <<>>} }]

\* date.toordinal(): the days from 0001-01-01 to the date, that day included
ToOrdinal(date) ==
    LET y == date.y
        before_year ==
            365 * (y - 1) + ((y - 1) \div 4) - ((y - 1) \div 100) + ((y - 1) \div 400)
        before_month[k \in 0..(date.m - 1)] ==
            IF k = 0 THEN 0 ELSE before_month[k - 1] + DaysInMonth(y, k)
    IN  before_year + before_month[date.m - 1] + date.d

\* the years the service clock and the cutoffs fall in
CalendarYears == 2023..2024

\* date.fromordinal()
FromOrdinal(n) ==
    CHOOSE date \in { MkDate(y, m, d) : y \in CalendarYears, m \in 1..12, d \in 1..31 } :
        ValidDate(date.y, date.m, date.d) /\ ToOrdinal(date) = n

\* the calendar day on which the service clock reads 0
Today == MkDate(2024, 2, 10)

SecondsPerDay == 24 * 60 * 60

\* datetime.now() - timedelta(days=days) at clock reading t: a day and the
\* seconds into it
CutoffDate(t, days) ==
    [date |-> ToDatetime(FromOrdinal(ToOrdinal(Today) + (t \div SecondsPerDay) - days)),
     secs |-> t % SecondsPerDay]

\* self.data['date'] >= cutoff_date for one row, whose date is a midnight;
\* a missing date compares False
NotBefore(date, cutoff_date) ==
    /\ date # NaT
    /\ \/ date > cutoff_date.date
       \/ date = cutoff_date.date /\ cutoff_date.secs = 0

\* get_metrics_history: per metric of the recent rows, their dates and
\* values in date order
GetMetricsHistory(data, cutoff_date) ==
    IF data = <<>>
      THEN [error |-> TRUE, metrics |-> {}]
      ELSE LET recent_data == SelectSeq(data, LAMBDA r : NotBefore(r.date, cutoff_date))
               names == UniqueMetrics(recent_data)
               history(metric_name) ==
                   LET metric_data ==
                           SortByDate(SelectSeq(recent_data,
                               LAMBDA r : r.metric = metric_name))
                   IN  [k \in 1..Len(metric_data) |->
                           [date |-> IF metric_data[k].date = NaT THEN NoDate
                                     ELSE Strftime(metric_data[k].date),
                            value |-> metric_data[k].value]]
           IN  [error |-> FALSE,
                metrics |-> { [metric |-> names[k], points |-> history(names[k])] :
                                k \in 1..Len(names) }]

\* _calculate_health_score: 0 for an empty or error snapshot, else 100 less
\* 15 per alert and 5 per warning, kept within 0..100
CalculateHealthScore(latest_metrics) ==
    IF latest_metrics.metrics = {} \/ latest_metrics.error THEN 0
    ELSE LET alerts == Cardinality({e \in latest_metrics.metrics : e.status = "alert"})
             warnings ==
                 Cardinality({e \in latest_metrics.metrics : e.status = "warning"})
             score == 100 - 15 * alerts - 5 * warnings
         IN  IF score < 0 THEN 0 ELSE IF score > 100 THEN 100 ELSE score

\* _generate_basic_recommendations: the categories of the entries it
\* returns, in order; nothing for an empty or error snapshot
GenerateBasicRecommendations(latest_metrics) ==
    IF latest_metrics.metrics = {} \/ latest_metrics.error THEN <<>>
    ELSE LET present == {e.metric : e \in latest_metrics.metrics}
         IN  <<"general">>
             \o (IF "glucose" \in present \/ "hba1c" \in present
                   THEN <<"diabetes_prevention">> ELSE <<>>)
             \o (IF "blood_pressure" \in present THEN <<"cardiovascular">> ELSE <<>>)

\* get_comprehensive_summary: latest_metrics, health_score and the
\* recommendations; the error answer carries none of them
GetComprehensiveSummary(data) ==
    IF data = <<>>
      THEN [error |-> TRUE, latest_metrics |-> [error |-> TRUE, metrics |-> {}],
            health_score |-> 0, recommendations |-> <<>>]
      ELSE [error |-> FALSE, latest_metrics |-> GetLatestMetrics(data),
            health_score |-> CalculateHealthScore(GetLatestMetrics(data)),
            recommendations |-> GenerateBasicRecommendations(GetLatestMetrics(data))]

(***************************************************************************)
(* The CSV importer.                                                       *)
(***************************************************************************)
\* the metric names of CSV rows that contain 'blood_pressure', and those
\* that contain 'systolic'
ContainsBloodPressure(name) ==
    name \in {"blood_pressure", "blood_pressure_systolic", "blood_pressure_diastolic"}
ContainsSystolic(name) == name \in {"blood_pressure_systolic"}

\* f"Manual entry: {metric} = {value} {unit}"
ManualEntryText(row, unit) == <<"Manual entry", row.metric, row.value, unit>>

\* _process_blood_pressure_row
ProcessBloodPressureRow(row) ==
    [metric |-> "blood_pressure", value |-> CsvFloat(row.value), date |-> row.date,
     bp_type |-> IF ContainsSystolic(row.metric) THEN "systolic" ELSE "diastolic",
     raw_text |-> ManualEntryText(row, "mmHg")]

\* the dict import_from_csv builds of one row
CsvMetric(row) ==
    IF ContainsBloodPressure(row.metric) THEN ProcessBloodPressureRow(row)
    ELSE Observation(row.metric, CsvFloat(row.value), row.date,
                     ManualEntryText(row, row.unit))

\* float(row['value']) raising on any row aborts import_from_csv
CsvRowsParse(rows) == \A i \in 1..Len(rows) : CsvFloat(rows[i].value) # NoValue

\* import_from_csv: the list it saves and returns
ImportFromCsv(rows) == [i \in 1..Len(rows) |-> CsvMetric(rows[i])]

(***************************************************************************)
(* Inputs.                                                                 *)
(***************************************************************************)
\* every document of at most MaxLines lines
Texts == UNION { [1..n -> Lines] : n \in 1..MaxLines }

Body(text_body) == CHOOSE l \in Lines : l.lead = 0 /\ l.body = text_body

\* the documents uploaded while the service runs
Documents ==
    { << Body("Datum 01.02.2024"), Body("glukoza 5,4") >>,
      << Body("Datum 01.02.2024"), Body("TK 120/80") >>,
      << Body("05.02.2024 P 72/min") >> }

CsvRow(date, metric_name, value, unit) ==
    [date |-> date, metric |-> metric_name, value |-> value, unit |-> unit]

\* the CSV files uploaded while the service runs (rows of the template)
CsvFiles ==
    { [stem |-> "glucose",
       rows |-> << CsvRow(MkDate(2024, 1, 15), "glucose", Num(5, ".", 4), "mmol/L") >>],
      [stem |-> "pressure",
       rows |-> << CsvRow(MkDate(2024, 1, 15), "blood_pressure_systolic",
                          Num(125, "", 0), "mmHg"),
                   CsvRow(MkDate(2024, 1, 15), "blood_pressure_diastolic",
                          Num(82, "", 0), "mmHg") >>],
      [stem |-> "comma",
       rows |-> << CsvRow(MkDate(2024, 1, 15), "ldl", Num(2, ",", 8), "mmol/L") >>] }

\* the bodies of POST /health-record
ManualPool ==
    { [record_date |-> MkDate(2024, 2, 3), metric_type |-> "glucose",
       value |-> Num(6, ".", 1)],
      [record_date |-> MkDate(2024, 2, 8), metric_type |-> "cukor",
       value |-> Num(5, ",", 9)] }

\* the records of a wearable export
ApplePool ==
    { [record_type |-> "HKQuantityTypeIdentifierBloodPressureSystolic",
       value |-> Scalar(1250), start_date |-> MkDate(2024, 2, 4)],
      [record_type |-> "HKQuantityTypeIdentifierStepCount",
       value |-> Scalar(40000), start_date |-> MkDate(2024, 2, 4)] }

\* the query parameters of GET /trends
TrendArgs ==
    { [metric |-> NoArg, start_date |-> NoDate, end_date |-> NoDate, raising |-> {}],
      [metric |-> "glucose", start_date |-> MkDate(2024, 2, 2), end_date |-> NoDate,
       raising |-> {}] }

\* seconds the clock advances in one step
TickSeconds == 150

(***************************************************************************)
(* State machine.                                                          *)
(***************************************************************************)
EmptyDir == [n \in {} |-> <<>>]

\* the threads that may run TrendAnalyzer() or the refresh handler
Threads == 1..MaxThreads

\* a thread that runs neither; the locals of a call are its position, the
\* all_metrics list of _load_data and self.data; seq and readAt note the
\* order and the clock reading at which its _load_data began, doneAt the
\* clock reading at which its rebuild was stamped
Idle ==
    [kind |-> "idle", pc |-> "done", all_metrics |-> <<>>, data |-> NoFrame,
     seq |-> 0, readAt |-> NoTime, doneAt |-> NoTime]

\* no call in progress, no rebuild begun, none finished
NoCalls == [of |-> [t \in Threads |-> Idle], rebuilds |-> 0, finished |-> {}]

Did(op, input, reads, count, result) ==
    [op |-> op, input |-> input, reads |-> reads, count |-> count, result |-> result]

\* import of api/analysis.py: both module-level analyzers are constructed
\* in a fresh process, whose class-level cache is empty
ImportAnalysis(t, dir, manual_records, apple_records) ==
    LET built == Construct(NoFrame, NoTime, t, dir, manual_records, apple_records)
    IN  [cache |-> built.cache, ts |-> built.ts,
         trend_analyzer |-> [data |-> built.data, builtAt |-> built.builtAt],
         metrics_analyzer |-> [data |-> LoadAllData(dir)]]

Init ==
    /\ now = 0
    /\ calls = NoCalls
    /\ files = EmptyDir
    /\ manual = <<>>
    /\ apple = <<>>
    /\ cache = ImportAnalysis(0, EmptyDir, <<>>, <<>>).cache
    /\ cacheTs = ImportAnalysis(0, EmptyDir, <<>>, <<>>).ts
    /\ trend_analyzer = ImportAnalysis(0, EmptyDir, <<>>, <<>>).trend_analyzer
    /\ metrics_analyzer = ImportAnalysis(0, EmptyDir, <<>>, <<>>).metrics_analyzer
    /\ text = <<>>
    /\ last = Did("import", <<>>, AllSources, 0, <<>>)

\* time passes
Tick ==
    /\ now + TickSeconds <= MaxTime
    /\ now' = now + TickSeconds
    /\ last' = Did("tick", <<>>, {}, 0, <<>>)
    /\ UNCHANGED <<files, manual, apple, cache, cacheTs, trend_analyzer,
                   metrics_analyzer, text, calls>>

\* the service is restarted: api/analysis.py is imported again
Restart ==
    LET fresh == ImportAnalysis(now, files, manual, apple)
    IN  /\ cache' = fresh.cache
        /\ cacheTs' = fresh.ts
        /\ trend_analyzer' = fresh.trend_analyzer
        /\ metrics_analyzer' = fresh.metrics_analyzer
        /\ last' = Did("import", <<>>, AllSources, Len(fresh.trend_analyzer.data), <<>>)
        /\ UNCHANGED <<now, files, manual, apple, text, calls>>

\* POST /health-record
AddHealthRecord(record) ==
    /\ Len(manual) < MaxManual
    /\ manual' = Append(manual, record)
    /\ last' = Did("add_health_record", <<>>, {}, 0, <<>>)
    /\ UNCHANGED <<now, files, apple, cache, cacheTs, trend_analyzer,
                   metrics_analyzer, text, calls>>

\* one record of a wearable import; a record already stored is skipped
ImportAppleRecord(record) ==
    /\ Len(apple) < MaxApple
    /\ apple' = IF \E i \in 1..Len(apple) : apple[i] = record
                  THEN apple ELSE Append(apple, record)
    /\ last' = Did("import_apple_health", <<>>, {}, 0, <<>>)
    /\ UNCHANGED <<now, files, manual, cache, cacheTs, trend_analyzer,
                   metrics_analyzer, text, calls>>

\* _save_extracted_data / _save_imported_data: the directory after the write
SaveFile(dir, name, metrics) == (name :> metrics) @@ dir

RoomFor(dir, name) == name \in DOMAIN dir \/ Cardinality(DOMAIN dir) < MaxFiles

\* one document of an upload: extract_health_metrics, which saves what it
\* found unless it found nothing
UploadDocument(doc) ==
    LET metrics == ExtractHealthMetrics(doc)
    IN  /\ RoomFor(files, ExtractedName(now))
        /\ files' = IF metrics = <<>> THEN files
                    ELSE SaveFile(files, ExtractedName(now), metrics)
        /\ last' = Did("extract_health_metrics", doc, {}, Len(metrics), metrics)
        /\ UNCHANGED <<now, manual, apple, cache, cacheTs, trend_analyzer,
                       metrics_analyzer, text, calls>>

\* one CSV file of an upload: import_from_csv
UploadCsv(csv) ==
    LET metrics == ImportFromCsv(csv.rows)
    IN  /\ RoomFor(files, CsvImportName(csv.stem, now))
        /\ IF CsvRowsParse(csv.rows)
             THEN /\ files' = SaveFile(files, CsvImportName(csv.stem, now), metrics)
                  /\ last' = Did("import_from_csv", csv.rows, {}, Len(metrics), metrics)
             ELSE /\ files' = files
                  /\ last' = Did("import_from_csv_failed", csv.rows, {}, 0, <<>>)
        /\ UNCHANGED <<now, manual, apple, cache, cacheTs, trend_analyzer,
                       metrics_analyzer, text, calls>>

\* TrendAnalyzer() by any caller
NewTrendAnalyzer ==
    LET built == Construct(cache, cacheTs, now, files, manual, apple)
    IN  /\ cache' = built.cache
        /\ cacheTs' = built.ts
        /\ last' = Did("construct", <<>>, built.reads, Len(built.data), built.data)
        /\ UNCHANGED <<now, files, manual, apple, trend_analyzer,
                       metrics_analyzer, text, calls>>

\* GET /refresh-cache while the reads named in raising raise
RefreshTrendCacheRaising(raising) ==
    LET cleared == Invalidate(cache, cacheTs)
        built == ConstructRaising(cleared.cache, cleared.ts, now, files, manual,
                                  apple, raising)
    IN  /\ cache' = built.cache
        /\ cacheTs' = built.ts
        /\ last' = Did("refresh_cache", raising, built.reads, Len(built.data),
                       built.data)
        /\ UNCHANGED <<now, files, manual, apple, trend_analyzer,
                       metrics_analyzer, text, calls>>

\* GET /refresh-cache
RefreshTrendCache == RefreshTrendCacheRaising(NoRaise)

\* what GET /trends returns for a result of analyze_trends: the result
\* under "trends", and a summary only when the result itself has the key
\* "trends", which is the answer for an empty series
TrendsResponse(trends) ==
    IF "trends" \notin trends.keys
      THEN [trends |-> trends, has_summary |-> FALSE, summary |-> GetSummary({})]
      ELSE [trends |-> trends, has_summary |-> TRUE,
            summary |-> GetSummary(trends.trends)]

\* a GET /trends whose analyze_trends keeps the filtered frame as the
\* instance's series
GetHealthTrendsNarrowing(args, raising) ==
    LET trends == AnalyzeTrendsRaising(trend_analyzer.data, args.metric,
                                       args.start_date, args.end_date, raising)
    IN  /\ last' = Did("analyze_trends", [args EXCEPT !.raising = raising], {}, 0,
                       trends) @@ [response |-> TrendsResponse(trends)]
        /\ trend_analyzer' =
              [trend_analyzer EXCEPT
                 !.data = FilterRows(trend_analyzer.data, args.metric,
                                     args.start_date, args.end_date)]
        /\ UNCHANGED <<now, files, manual, apple, cache, cacheTs,
                       metrics_analyzer, text, calls>>

\* GET /trends: analyze_trends of the module-level instance, while the
\* analysis of the metrics in raising raises, and get_summary
GetHealthTrendsRaising(args, raising) ==
    LET trends == AnalyzeTrendsRaising(trend_analyzer.data, args.metric,
                                       args.start_date, args.end_date, raising)
    IN  /\ last' = Did("analyze_trends", [args EXCEPT !.raising = raising], {}, 0,
                       trends) @@ [response |-> TrendsResponse(trends)]
        /\ UNCHANGED <<now, files, manual, apple, cache, cacheTs, trend_analyzer,
                       metrics_analyzer, text, calls>>

\* GET /trends
GetHealthTrends(args) == GetHealthTrendsRaising(args, {})

\* GET /metrics/latest: get_latest_metrics of the module-level instance
GetLatest ==
    /\ last' = Did("get_latest_metrics", <<>>, {}, 0,
                   GetLatestMetrics(metrics_analyzer.data))
    /\ UNCHANGED <<now, files, manual, apple, cache, cacheTs, trend_analyzer,
                   metrics_analyzer, text, calls>>

Next ==
    \/ Tick
    \/ \E record \in ManualPool : AddHealthRecord(record)
    \/ \E record \in ApplePool : ImportAppleRecord(record)
    \/ \E doc \in Documents : UploadDocument(doc)
    \/ NewTrendAnalyzer
    \/ RefreshTrendCache
    \/ \E args \in TrendArgs : GetHealthTrends(args)
    \/ GetLatest

Spec == Init /\ [][Next]_vars

(***************************************************************************)
(* The persisted-file boundary: uploads of documents and CSV files, the    *)
(* rebuilds that read them back, and restarts of the service.              *)
(***************************************************************************)
NextFiles ==
    \/ Tick
    \/ Restart
    \/ \E doc \in Documents : UploadDocument(doc)
    \/ \E csv \in CsvFiles : UploadCsv(csv)
    \/ RefreshTrendCache
    \/ GetLatest

SpecFiles == Init /\ [][NextFiles]_vars

(***************************************************************************)
(* The extractor alone, on every document of the bound.                    *)
(***************************************************************************)
InitExtract ==
    /\ now = 0
    /\ calls = NoCalls
    /\ files = EmptyDir
    /\ manual = <<>>
    /\ apple = <<>>
    /\ cache = ImportAnalysis(0, EmptyDir, <<>>, <<>>).cache
    /\ cacheTs = ImportAnalysis(0, EmptyDir, <<>>, <<>>).ts
    /\ trend_analyzer = ImportAnalysis(0, EmptyDir, <<>>, <<>>).trend_analyzer
    /\ metrics_analyzer = ImportAnalysis(0, EmptyDir, <<>>, <<>>).metrics_analyzer
    /\ text \in Texts
    /\ last = Did("import", <<>>, AllSources, 0, <<>>)

ExtractText == UploadDocument(text)

NextExtract == ExtractText

SpecExtract == InitExtract /\ [][NextExtract]_vars

(***************************************************************************)
(* The service started over stores that already hold data: the rebuild of  *)
(* the unified series, alone.                                              *)
(***************************************************************************)
MaxRecords == 2

\* every sequence of at most n elements of S
SeqsUpTo(S, n) == UNION { [1..k -> S] : k \in 0..n }

\* documents processed before the start; the last one carries no date
SeriesDocuments == Documents \cup { << Body("glukoza 5,4") >> }

\* the processed-data directory: at most MaxFiles files, each the output of
\* one extraction run
SeriesDirs ==
    UNION { [ {ExtractedName(t) : t \in 0..(n - 1)}
                -> {ExtractHealthMetrics(doc) : doc \in SeriesDocuments} ] :
            n \in 0..MaxFiles }

\* manual records stored before the start
SeriesManualPool ==
    { [record_date |-> MkDate(2024, 2, 3), metric_type |-> "glucose",
       value |-> Num(6, ".", 1)],
      [record_date |-> MkDate(2024, 1, 20), metric_type |-> "glucose",
       value |-> Num(5, ",", 2)],
      [record_date |-> MkDate(2024, 2, 6), metric_type |-> "pulse",
       value |-> Num(70, "", 0)] }

\* the wearable store holds no record twice
SeriesApple ==
    { a \in SeqsUpTo(ApplePool, MaxApple) :
        \A i, j \in 1..Len(a) : a[i] = a[j] => i = j }

InitSeries ==
    /\ now = 0
    /\ calls = NoCalls
    /\ files \in SeriesDirs
    /\ manual \in SeqsUpTo(SeriesManualPool, MaxRecords)
    /\ apple \in SeriesApple
    /\ cache = ImportAnalysis(0, files, manual, apple).cache
    /\ cacheTs = ImportAnalysis(0, files, manual, apple).ts
    /\ trend_analyzer = ImportAnalysis(0, files, manual, apple).trend_analyzer
    /\ metrics_analyzer = ImportAnalysis(0, files, manual, apple).metrics_analyzer
    /\ text = <<>>
    /\ last = Did("import", <<>>, AllSources, Len(cache.rows), <<>>)

\* at most one read raises during a rebuild
RaisingChoices(dir) ==
    {NoRaise}
      \cup { [files |-> {n}, queries |-> {}] : n \in DOMAIN dir }
      \cup { [files |-> {}, queries |-> {q}] : q \in {"manual", "apple_health"} }

Rebuild == \E raising \in RaisingChoices(files) : RefreshTrendCacheRaising(raising)

NextUnify == Rebuild

SpecUnify == InitSeries /\ [][NextUnify]_vars

(***************************************************************************)
(* The same start, and the trend requests answered from the series built   *)
(* at import.                                                              *)
(***************************************************************************)
\* the query parameters tried: no filter, a metric with a start date, a
\* metric no source holds, a start date alone, an end date before every
\* observation
SeriesArgs ==
    { [metric |-> NoArg, start_date |-> NoDate, end_date |-> NoDate, raising |-> {}],
      [metric |-> "glucose", start_date |-> MkDate(2024, 2, 1), end_date |-> NoDate,
       raising |-> {}],
      [metric |-> "ldl", start_date |-> NoDate, end_date |-> NoDate, raising |-> {}],
      [metric |-> NoArg, start_date |-> MkDate(2024, 2, 1), end_date |-> NoDate,
       raising |-> {}],
      [metric |-> NoArg, start_date |-> NoDate, end_date |-> MkDate(2024, 1, 1),
       raising |-> {}] }

\* the metrics whose analysis raises during one request
RaisingMetrics == { {}, {"glucose"} }

Trends ==
    \E args \in SeriesArgs : \E raising \in RaisingMetrics :
        GetHealthTrendsRaising(args, raising)

NextTrends == Trends

SpecTrends == InitSeries /\ [][NextTrends]_vars

(***************************************************************************)
(* TrendAnalyzer() and the refresh handler run by several threads, one     *)
(* statement that touches shared state at a time.  The class attributes    *)
(* are read and written without a lock, so between any two statements of   *)
(* one call the statements of another, a new manual record and the clock   *)
(* may come.                                                               *)
(***************************************************************************)
MaxRebuilds == 2

\* the processed-data directory and the wearable store of this service
ThreadsDir ==
    SaveFile(EmptyDir, ExtractedName(0),
             << Observation("glucose", Scalar(54), MkDate(2024, 2, 1), "glukoza 5,4") >>)

ThreadsApple ==
    << [record_type |-> "HKQuantityTypeIdentifierBloodPressureSystolic",
        value |-> Scalar(1250), start_date |-> MkDate(2024, 2, 4)] >>

\* the import has run one rebuild to its end
InitThreads ==
    /\ now = 0
    /\ files = ThreadsDir
    /\ manual = <<>>
    /\ apple = ThreadsApple
    /\ cache = ImportAnalysis(0, files, manual, apple).cache
    /\ cacheTs = ImportAnalysis(0, files, manual, apple).ts
    /\ trend_analyzer = ImportAnalysis(0, files, manual, apple).trend_analyzer
    /\ metrics_analyzer = ImportAnalysis(0, files, manual, apple).metrics_analyzer
    /\ text = <<>>
    /\ calls = [NoCalls EXCEPT !.finished = {cache.rows}]
    /\ last = Did("import", <<>>, AllSources, Len(cache.rows), <<>>)

Running(c) == c.pc \notin {"done", "raised"}

\* the call of thread t moves to position pc with the locals changed
Moved(t, c) == [calls EXCEPT !.of[t] = c]

\* a series published while its sources are still being read
SlotAfterEarly(c, slot) ==
    IF c.pc = "publish_cache" THEN c.data
    ELSE IF c.pc = "load_apple" THEN Frame(BuildFrame(c.all_metrics))
    ELSE slot

\* _data_cache after a statement of call c: only line 38 assigns a series
SlotAfter(c, slot) == IF c.pc = "publish_cache" THEN c.data ELSE slot

\* a thread calls TrendAnalyzer()
StartConstruct(t) ==
    /\ ~Running(calls.of[t])
    /\ calls' = Moved(t, [Idle EXCEPT !.kind = "construct", !.pc = "test_cache"])
    /\ last' = Did("call", t, {}, 0, <<>>)
    /\ UNCHANGED <<now, files, manual, apple, cache, cacheTs, trend_analyzer,
                   metrics_analyzer, text>>

\* a thread enters refresh_trend_cache
StartRefresh(t) ==
    /\ ~Running(calls.of[t])
    /\ calls' = Moved(t, [Idle EXCEPT !.kind = "refresh", !.pc = "clear_cache"])
    /\ last' = Did("call", t, {}, 0, <<>>)
    /\ UNCHANGED <<now, files, manual, apple, cache, cacheTs, trend_analyzer,
                   metrics_analyzer, text>>

\* TrendAnalyzer._data_cache = None
ClearCache(t) ==
    /\ calls.of[t].pc = "clear_cache"
    /\ cache' = Invalidate(cache, cacheTs).cache
    /\ calls' = Moved(t, [calls.of[t] EXCEPT !.pc = "clear_ts"])
    /\ last' = Did("clear_cache", t, {}, 0, <<>>)
    /\ UNCHANGED <<now, files, manual, apple, cacheTs, trend_analyzer,
                   metrics_analyzer, text>>

\* TrendAnalyzer._cache_timestamp = None, then TrendAnalyzer()
ClearTs(t) ==
    /\ calls.of[t].pc = "clear_ts"
    /\ cacheTs' = Invalidate(cache, cacheTs).ts
    /\ calls' = Moved(t, [calls.of[t] EXCEPT !.pc = "test_cache"])
    /\ last' = Did("clear_ts", t, {}, 0, <<>>)
    /\ UNCHANGED <<now, files, manual, apple, cache, trend_analyzer,
                   metrics_analyzer, text>>

\* TrendAnalyzer._data_cache is not None
TestCache(t) ==
    /\ calls.of[t].pc = "test_cache"
    /\ calls' = Moved(t, [calls.of[t] EXCEPT
                             !.pc = IF cache.present THEN "test_ts" ELSE "load_files"])
    /\ last' = Did("test_cache", t, {}, 0, <<>>)
    /\ UNCHANGED <<now, files, manual, apple, cache, cacheTs, trend_analyzer,
                   metrics_analyzer, text>>

\* and TrendAnalyzer._cache_timestamp
TestTs(t) ==
    /\ calls.of[t].pc = "test_ts"
    /\ calls' = Moved(t, [calls.of[t] EXCEPT
                             !.pc = IF cacheTs # NoTime THEN "test_age"
                                    ELSE "load_files"])
    /\ last' = Did("test_ts", t, {}, 0, <<>>)
    /\ UNCHANGED <<now, files, manual, apple, cache, cacheTs, trend_analyzer,
                   metrics_analyzer, text>>

\* and (datetime.now() - TrendAnalyzer._cache_timestamp).total_seconds() <
\* _cache_ttl; the subtraction raises when the timestamp has become None
TestAge(t) ==
    /\ calls.of[t].pc = "test_age"
    /\ calls' = Moved(t, [calls.of[t] EXCEPT
                             !.pc = IF cacheTs = NoTime THEN "raised"
                                    ELSE IF now - cacheTs < _cache_ttl THEN "use_cache"
                                    ELSE "load_files"])
    /\ last' = Did("test_age", t, {}, 0, <<>>)
    /\ UNCHANGED <<now, files, manual, apple, cache, cacheTs, trend_analyzer,
                   metrics_analyzer, text>>

\* self.data = TrendAnalyzer._data_cache, then len(self.data), which raises
\* when the cache has become None
UseCache(t) ==
    /\ calls.of[t].pc = "use_cache"
    /\ calls' = Moved(t, [calls.of[t] EXCEPT
                             !.data = cache,
                             !.pc = IF cache.present THEN "done" ELSE "raised"])
    /\ last' = Did("use_cache", t, {}, 0, <<>>)
    /\ UNCHANGED <<now, files, manual, apple, cache, cacheTs, trend_analyzer,
                   metrics_analyzer, text>>

\* _load_data, step 1: the persisted files
LoadFiles(t) ==
    /\ calls.of[t].pc = "load_files"
    /\ calls.rebuilds < MaxRebuilds
    /\ calls' = [calls EXCEPT
                   !.rebuilds = @ + 1,
                   !.of[t] = [@ EXCEPT !.pc = "load_manual",
                                       !.all_metrics = FileMetrics(files),
                                       !.seq = calls.rebuilds + 1,
                                       !.readAt = now]]
    /\ cache' = SlotAfter(calls.of[t], cache)
    /\ last' = Did("load_files", t, {"files"}, 0, <<>>)
    /\ UNCHANGED <<now, files, manual, apple, cacheTs, trend_analyzer,
                   metrics_analyzer, text>>

\* _load_data, step 2: the manual records
LoadManual(t) ==
    /\ calls.of[t].pc = "load_manual"
    /\ calls' = Moved(t, [calls.of[t] EXCEPT
                             !.pc = "load_apple",
                             !.all_metrics = @ \o ManualMetrics(manual)])
    /\ cache' = SlotAfter(calls.of[t], cache)
    /\ last' = Did("load_manual", t, {"manual"}, 0, <<>>)
    /\ UNCHANGED <<now, files, manual, apple, cacheTs, trend_analyzer,
                   metrics_analyzer, text>>

\* _load_data, step 3 and the frame built from all_metrics: the rebuild has
\* finished and self.data holds its result
LoadApple(t) ==
    LET all_metrics == calls.of[t].all_metrics \o AppleMetrics(apple)
        data == BuildFrame(all_metrics)
    IN  /\ calls.of[t].pc = "load_apple"
        /\ calls' = [calls EXCEPT
                       !.finished = @ \cup {data},
                       !.of[t] = [@ EXCEPT !.pc = "publish_cache",
                                           !.all_metrics = all_metrics,
                                           !.data = Frame(data)]]
        /\ cache' = SlotAfter(calls.of[t], cache)
        /\ last' = Did("load_apple", t, {"apple_health"}, Len(data), <<>>)
        /\ UNCHANGED <<now, files, manual, apple, cacheTs, trend_analyzer,
                       metrics_analyzer, text>>

\* TrendAnalyzer._data_cache = self.data
PublishCache(t) ==
    /\ calls.of[t].pc = "publish_cache"
    /\ cache' = SlotAfter(calls.of[t], cache)
    /\ calls' = Moved(t, [calls.of[t] EXCEPT !.pc = "publish_ts"])
    /\ last' = Did("publish_cache", t, {}, 0, <<>>)
    /\ UNCHANGED <<now, files, manual, apple, cacheTs, trend_analyzer,
                   metrics_analyzer, text>>

\* TrendAnalyzer._cache_timestamp = datetime.now()
PublishTs(t) ==
    /\ calls.of[t].pc = "publish_ts"
    /\ cacheTs' = now
    /\ calls' = Moved(t, [calls.of[t] EXCEPT !.pc = "done", !.doneAt = now])
    /\ last' = Did("publish_ts", t, {}, 0, <<>>)
    /\ UNCHANGED <<now, files, manual, apple, cache, trend_analyzer,
                   metrics_analyzer, text>>

\* the request answered from the module-level instance meanwhile
ThreadsArgs ==
    [metric |-> NoArg, start_date |-> NoDate, end_date |-> NoDate, raising |-> {}]

NextThreads ==
    \/ Tick
    \/ \E record \in ManualPool : AddHealthRecord(record)
    \/ GetHealthTrends(ThreadsArgs)
    \/ \E t \in Threads : StartConstruct(t)
    \/ \E t \in Threads : StartRefresh(t)
    \/ \E t \in Threads : ClearCache(t)
    \/ \E t \in Threads : ClearTs(t)
    \/ \E t \in Threads : TestCache(t)
    \/ \E t \in Threads : TestTs(t)
    \/ \E t \in Threads : TestAge(t)
    \/ \E t \in Threads : UseCache(t)
    \/ \E t \in Threads : LoadFiles(t)
    \/ \E t \in Threads : LoadManual(t)
    \/ \E t \in Threads : LoadApple(t)
    \/ \E t \in Threads : PublishCache(t)
    \/ \E t \in Threads : PublishTs(t)

SpecThreads == InitThreads /\ [][NextThreads]_vars

(***************************************************************************)
(* The two classifiers of a single value, side by side: _get_metric_status *)
(* of the aggregator and _interpret_metric of the trend analyzer.          *)
(***************************************************************************)
\* the metrics both classifiers have limits for
ClassifiedMetrics == {"glucose", "hba1c", "cholesterol", "ldl", "triglycerides", "bmi"}

\* values in tenths: around every limit of either classifier
ClassifiedValues ==
    { 0, 10, 16, 17, 18, 29, 30, 31, 38, 39, 40, 51, 52, 53, 55, 56, 57, 58,
      184, 185, 186, 248, 249, 250, 251 }

InitClassify ==
    /\ now = 0
    /\ calls = NoCalls
    /\ files = EmptyDir
    /\ manual = <<>>
    /\ apple = <<>>
    /\ cache = ImportAnalysis(0, EmptyDir, <<>>, <<>>).cache
    /\ cacheTs = ImportAnalysis(0, EmptyDir, <<>>, <<>>).ts
    /\ trend_analyzer = ImportAnalysis(0, EmptyDir, <<>>, <<>>).trend_analyzer
    /\ metrics_analyzer = ImportAnalysis(0, EmptyDir, <<>>, <<>>).metrics_analyzer
    /\ text = <<>>
    /\ \E metric_name \in ClassifiedMetrics : \E v \in ClassifiedValues :
          last = Did("input", [metric |-> metric_name, value |-> Scalar(v)],
                     {}, 0, <<>>)

\* both classifiers applied to the value, as the latest value of its metric
ClassifyInput ==
    /\ last.op = "input"
    /\ last' = Did("classify", last.input, {}, 0,
                   [status |-> GetMetricStatus(last.input.metric, last.input.value),
                    interpretation |->
                        InterpretMetric(last.input.metric, last.input.value)])
    /\ UNCHANGED <<now, files, manual, apple, cache, cacheTs, trend_analyzer,
                   metrics_analyzer, text, calls>>

NextClassify == ClassifyInput

SpecClassify == InitClassify /\ [][NextClassify]_vars

(***************************************************************************)
(* _extract_date alone, on lines whose only date token is written year     *)
(* first.                                                                  *)
(***************************************************************************)
\* the years, months and days written, the day with two digits
IsoYears == {1999, 2005, 2024, 2031}
IsoDays == {1, 5, 15, 24, 28, 29, 30, 31}

IsoTokens ==
    { IsoDash(y, m, d) : y \in IsoYears, m \in 1..12, d \in IsoDays }
      \cup { IsoSlash(y, m, d) : y \in IsoYears, m \in 1..12, d \in IsoDays }

InitDate ==
    /\ now = 0
    /\ calls = NoCalls
    /\ files = EmptyDir
    /\ manual = <<>>
    /\ apple = <<>>
    /\ cache = ImportAnalysis(0, EmptyDir, <<>>, <<>>).cache
    /\ cacheTs = ImportAnalysis(0, EmptyDir, <<>>, <<>>).ts
    /\ trend_analyzer = ImportAnalysis(0, EmptyDir, <<>>, <<>>).trend_analyzer
    /\ metrics_analyzer = ImportAnalysis(0, EmptyDir, <<>>, <<>>).metrics_analyzer
    /\ text = <<>>
    /\ \E tok \in IsoTokens : last = Did("input", tok, {}, 0, <<>>)

ExtractDateOfInput ==
    /\ last.op = "input"
    /\ last' = Did("_extract_date", last.input, {}, 0, ExtractDate(last.input))
    /\ UNCHANGED <<now, files, manual, apple, cache, cacheTs, trend_analyzer,
                   metrics_analyzer, text, calls>>

NextDate == ExtractDateOfInput

SpecDate == InitDate /\ [][NextDate]_vars

(***************************************************************************)
(* _calculate_trend alone, on every short series of values.                *)
(***************************************************************************)
MaxPoints == 3

\* values in tenths: 5.0, 5.1, 5.2, 10 and 20
TrendValuePool == {50, 51, 52, 100, 200}

\* the rows of one metric with the given values, one per day
PointsOf(values) ==
    [i \in 1..Len(values) |-> Row(20240100 + i, "glucose", Scalar(values[i]), "manual")]

InitSlope ==
    /\ now = 0
    /\ calls = NoCalls
    /\ files = EmptyDir
    /\ manual = <<>>
    /\ apple = <<>>
    /\ cache = ImportAnalysis(0, EmptyDir, <<>>, <<>>).cache
    /\ cacheTs = ImportAnalysis(0, EmptyDir, <<>>, <<>>).ts
    /\ trend_analyzer = ImportAnalysis(0, EmptyDir, <<>>, <<>>).trend_analyzer
    /\ metrics_analyzer = ImportAnalysis(0, EmptyDir, <<>>, <<>>).metrics_analyzer
    /\ text = <<>>
    /\ \E values \in SeqsUpTo(TrendValuePool, MaxPoints) :
          last = Did("input", values, {}, 0, <<>>)

CalculateTrendOfInput ==
    /\ last.op = "input"
    /\ last' = Did("calculate_trend", last.input, {}, Len(last.input),
                   CalculateTrend(PointsOf(last.input)))
    /\ UNCHANGED <<now, files, manual, apple, cache, cacheTs, trend_analyzer,
                   metrics_analyzer, text, calls>>

NextSlope == CalculateTrendOfInput

SpecSlope == InitSlope /\ [][NextSlope]_vars

(***************************************************************************)
(* _interpret_blood_pressure alone, on pairs around every threshold.       *)
(***************************************************************************)
MaxHistory == 1

\* mmHg in tenths
SystolicPool == {1199, 1200, 1250, 1299, 1300, 1399, 1400, 1799, 1800}
DiastolicPool == {799, 800, 820, 899, 900, 1199, 1200}
EarlierPairs == { Pair(1100, 700), Pair(1900, 1300) }

InitPressure ==
    /\ now = 0
    /\ calls = NoCalls
    /\ files = EmptyDir
    /\ manual = <<>>
    /\ apple = <<>>
    /\ cache = ImportAnalysis(0, EmptyDir, <<>>, <<>>).cache
    /\ cacheTs = ImportAnalysis(0, EmptyDir, <<>>, <<>>).ts
    /\ trend_analyzer = ImportAnalysis(0, EmptyDir, <<>>, <<>>).trend_analyzer
    /\ metrics_analyzer = ImportAnalysis(0, EmptyDir, <<>>, <<>>).metrics_analyzer
    /\ text = <<>>
    /\ \E earlier \in SeqsUpTo(EarlierPairs, MaxHistory) :
       \E s \in SystolicPool : \E d \in DiastolicPool :
          last = Did("input", Append(earlier, Pair(s, d)), {}, 0, <<>>)

InterpretInput ==
    /\ last.op = "input"
    /\ last' = Did("interpret_blood_pressure", last.input, {}, Len(last.input),
                   InterpretBloodPressure([i \in 1..Len(last.input) |-> last.input[i].a],
                                          [i \in 1..Len(last.input) |-> last.input[i].b]))
    /\ UNCHANGED <<now, files, manual, apple, cache, cacheTs, trend_analyzer,
                   metrics_analyzer, text, calls>>

NextPressure == InterpretInput

SpecPressure == InitPressure /\ [][NextPressure]_vars

(***************************************************************************)
(* The service started over one extraction output, and its summary.        *)
(***************************************************************************)
MaxObservations == 3

\* observations an extraction run can have saved: glucose 7.5 (alert),
\* cholesterol 5.5 (warning), BMI 22 (normal), blood pressure 145/95
\* (alert), and a glucose found on a line with no date in reach
SummaryObservations ==
    { Observation("glucose", Scalar(75), MkDate(2024, 2, 1), "glukoza 7,5"),
      Observation("cholesterol", Scalar(55), MkDate(2024, 2, 1), "CHOL 5.5"),
      Observation("bmi", Scalar(220), MkDate(2024, 2, 2), "BMI 22"),
      Observation("blood_pressure", Pair(1450, 950), MkDate(2024, 2, 3), "TK 145/95"),
      Observation("glucose", Scalar(54), NoDate, "glukoza 5,4") }

\* nothing is saved for a run that found nothing
SummaryDirs ==
    { IF metrics = <<>> THEN EmptyDir ELSE SaveFile(EmptyDir, ExtractedName(0), metrics) :
      metrics \in SeqsUpTo(SummaryObservations, MaxObservations) }

InitSummary ==
    /\ now = 0
    /\ calls = NoCalls
    /\ files \in SummaryDirs
    /\ manual = <<>>
    /\ apple = <<>>
    /\ cache = ImportAnalysis(0, files, manual, apple).cache
    /\ cacheTs = ImportAnalysis(0, files, manual, apple).ts
    /\ trend_analyzer = ImportAnalysis(0, files, manual, apple).trend_analyzer
    /\ metrics_analyzer = ImportAnalysis(0, files, manual, apple).metrics_analyzer
    /\ text = <<>>
    /\ last = Did("import", <<>>, AllSources, Len(cache.rows), <<>>)

\* GET /summary: get_comprehensive_summary of the module-level instance
GetHealthSummary ==
    /\ last' = Did("get_comprehensive_summary", <<>>, {}, 0,
                   GetComprehensiveSummary(metrics_analyzer.data))
    /\ UNCHANGED <<now, files, manual, apple, cache, cacheTs, trend_analyzer,
                   metrics_analyzer, text, calls>>

\* GET /metrics/history: get_metrics_history of the module-level instance
GetMetricsHistoryOfDays(days) ==
    /\ last' = Did("get_metrics_history", days, {}, 0,
                   GetMetricsHistory(metrics_analyzer.data, CutoffDate(now, days)))
    /\ UNCHANGED <<now, files, manual, apple, cache, cacheTs, trend_analyzer,
                   metrics_analyzer, text, calls>>

NextSummary == GetHealthSummary

SpecSummary == InitSummary /\ [][NextSummary]_vars

(***************************************************************************)
(* The same start, and the three date-bounded readers: the trend request,  *)
(* the history request and the latest-values request.                      *)
(***************************************************************************)
\* the days parameter of GET /metrics/history: a week and a day, and the
\* default
HistoryDays == {8, 365}

NextUndated ==
    \/ \E args \in TrendArgs : GetHealthTrends(args)
    \/ \E days \in HistoryDays : GetMetricsHistoryOfDays(days)
    \/ GetLatest

SpecUndated == InitSummary /\ [][NextUndated]_vars

(***************************************************************************)
(* Properties.                                                             *)
(***************************************************************************)
\* the canonical vocabulary of the data model
CanonicalMetrics ==
    { "glucose", "hba1c", "cholesterol", "ldl", "hdl", "triglycerides", "bmi",
      "weight", "height", "heart_rate", "blood_pressure", "creatinine",
      "bilirubin", "alt", "ast", "hemoglobin", "erythrocytes", "leukocytes",
      "platelets", "temperature" }

RowsOf(rows) == {rows[k] : k \in 1..Len(rows)}

\* C1: every analyze_trends call of the request layer works on a series
\* that was rebuilt less than 300 seconds before the call.
C1_TrendsSeriesYoungerThanTtl ==
    last.op = "analyze_trends" => now - trend_analyzer.builtAt < _cache_ttl

\* C2: the analyze_trends call that follows a completed refresh_cache
\* computes over the series that refresh built.
C2_TrendsUseRefreshedSeries ==
    [][ (last.op = "refresh_cache" /\ last'.op = "analyze_trends")
          => last'.result = AnalyzeTrends(cache.rows, last'.input.metric,
                                          last'.input.start_date, last'.input.end_date)
      ]_vars

\* C3: a TrendAnalyzer construction made while a cached series exists and
\* is younger than 300 seconds holds exactly the cached records, reads no
\* source, and leaves the cache and its timestamp as they were.
C3_ConstructionWithinTtlReuses ==
    [][ ( /\ cache.present
          /\ cacheTs # NoTime
          /\ now - cacheTs < 300
          /\ last'.op = "construct" )
          => ( /\ last'.result = cache.rows
               /\ last'.count = Len(cache.rows)
               /\ last'.reads = {}
               /\ cache' = cache
               /\ cacheTs' = cacheTs )
      ]_vars

\* a construction reused a non-empty cached series although the sources
\* had changed since it was built
C3_Witness ==
    /\ last.op = "construct"
    /\ last.reads = {}
    /\ cache.rows # <<>>
    /\ cacheTs # NoTime /\ now - cacheTs < 300
    /\ LoadData(files, manual, apple) # cache.rows

\* C4: refresh_cache, at any cache age, reads all three sources, leaves the
\* rebuilt series in the cache with the current time as its timestamp, and
\* returns the number of rows of that series.
C4_RefreshRebuilds ==
    last.op = "refresh_cache"
      => ( /\ last.reads = AllSources
           /\ cache = Frame(LoadData(files, manual, apple))
           /\ cacheTs = now
           /\ last.count = Len(LoadData(files, manual, apple)) )

\* a refresh at a cache age below 300 seconds rebuilt a non-empty series
C4_Witness ==
    /\ last.op = "refresh_cache"
    /\ now < 300
    /\ last.count > 0
    /\ cache.rows # <<>>

\* C5: after a rebuild, every dated observation of every persisted file is
\* in the unified series with its canonical metric, its value and its date.
C5_PersistedObservationsSurvive ==
    last.op = "refresh_cache"
      => \A name \in DOMAIN files : \A i \in 1..Len(files[name]) :
            files[name][i].date # NoDate
              => \E row \in RowsOf(cache.rows) :
                    /\ row.metric = FoldPulse(files[name][i].metric)
                    /\ row.value = files[name][i].value
                    /\ row.date = ToDatetime(files[name][i].date)

\* the latest date a metric has in a series
LatestDate(rows, metric_name) ==
    CHOOSE d \in {r.date : r \in {x \in RowsOf(rows) : x.metric = metric_name}} :
        \A r \in RowsOf(rows) : r.metric = metric_name => r.date <= d

\* C6: get_latest_metrics reports, for every metric of the unified series,
\* the chronologically latest observation of that metric.
C6_LatestCoversUnifiedSeries ==
    last.op = "get_latest_metrics"
      => \A row \in RowsOf(cache.rows) :
            \E entry \in last.result.metrics :
                /\ entry.metric = row.metric
                /\ ToDatetime(entry.date) = LatestDate(cache.rows, row.metric)
                /\ \E r \in RowsOf(cache.rows) :
                      /\ r.metric = row.metric
                      /\ r.date = LatestDate(cache.rows, row.metric)
                      /\ r.value = entry.value

\* the observations of the result that come from a line text for a metric
ObservationsOf(result, metric_name, raw_text) ==
    {k \in 1..Len(result) :
        result[k].metric = metric_name /\ result[k].raw_text = raw_text}

\* the line's text occurs once in the document
OnlyLineWithText(lines, i) ==
    \A j \in 1..Len(lines) : Strip(lines[j]) = Strip(lines[i]) => j = i

\* C7: a line that matches a rule of a scalar metric yields exactly one
\* observation of that metric, whose value is the number written, a comma
\* read as the decimal point (stated for lines that match one rule and
\* whose text occurs once in the document).
C7_ExactlyOneObservationPerLine ==
    last.op = "extract_health_metrics"
      => \A i \in 1..Len(text) : \A h \in text[i].hits :
            ( /\ h.metric # "blood_pressure"
              /\ Cardinality(text[i].hits) = 1
              /\ OnlyLineWithText(text, i) )
              => /\ Cardinality(ObservationsOf(last.result, h.metric, Strip(text[i]))) = 1
                 /\ \A k \in ObservationsOf(last.result, h.metric, Strip(text[i])) :
                       last.result[k].value
                         = Scalar(h.groups[1].ip * 10 + h.groups[1].fp)

\* C8: a line that matches rules of several metrics yields an observation
\* for each of them, dated or not.
C8_EveryMatchedMetricObserved ==
    last.op = "extract_health_metrics"
      => \A i \in 1..Len(text) : \A h \in text[i].hits :
            Cardinality(text[i].hits) >= 2
              => ObservationsOf(last.result, h.metric, Strip(text[i])) # {}

\* C9: every row of the unified series has a metric of the canonical
\* vocabulary.
C9_OnlyCanonicalMetrics ==
    \A row \in RowsOf(cache.rows) : row.metric \in CanonicalMetrics

\* the value is a pair for blood_pressure and a single number otherwise
ShapeFitsMetric(metric_name, value) ==
    IF metric_name = "blood_pressure" THEN value.kind = "pair"
    ELSE value.kind = "scalar"

\* C10: in every persisted extractor or importer output and in the unified
\* series, blood_pressure carries a (systolic, diastolic) pair and every
\* other metric a single number.
C10_BloodPressureIsAPair ==
    /\ \A name \in DOMAIN files : \A i \in 1..Len(files[name]) :
          ShapeFitsMetric(files[name][i].metric, files[name][i].value)
    /\ \A row \in RowsOf(cache.rows) : ShapeFitsMetric(row.metric, row.value)

\* the series in the cache was built with no read raising
BuiltWithoutRaising ==
    last.op = "import" \/ (last.op = "refresh_cache" /\ last.input = NoRaise)

\* the record types of a wearable export
VendorIdentifiers == AppleTypes \cup {r.record_type : r \in ApplePool}

\* C11: no row of the unified series has the synonym metric 'pulse' or a
\* wearable record-type identifier as its metric, and every dated numeric
\* 'pulse' record of a file or of the manual store is in the series as
\* 'heart_rate'.
C11_NoSynonymInSeries ==
    /\ \A row \in RowsOf(cache.rows) :
          row.metric # "pulse" /\ row.metric \notin VendorIdentifiers
    /\ BuiltWithoutRaising =>
          /\ \A name \in DOMAIN files : \A i \in 1..Len(files[name]) :
                ( /\ files[name][i].metric = "pulse"
                  /\ files[name][i].date # NoDate
                  /\ files[name][i].value.kind = "scalar" )
                  => \E row \in RowsOf(cache.rows) :
                        /\ row.metric = "heart_rate"
                        /\ row.value = files[name][i].value
                        /\ row.date = ToDatetime(files[name][i].date)
          /\ \A i \in 1..Len(manual) :
                ( /\ manual[i].metric_type = "pulse"
                  /\ ToDatetime(manual[i].record_date) # NaT
                  /\ ToFloat(manual[i].value).kind = "scalar" )
                  => \E row \in RowsOf(cache.rows) :
                        /\ row.metric = "heart_rate"
                        /\ row.source = "manual"
                        /\ row.value = ToFloat(manual[i].value)
                        /\ row.date = ToDatetime(manual[i].record_date)

\* a rebuild over a file and a manual record that both say 'pulse', and a
\* wearable record
C11_Witness ==
    /\ last.op = "refresh_cache" /\ last.input = NoRaise
    /\ \E name \in DOMAIN files : \E i \in 1..Len(files[name]) :
          files[name][i].metric = "pulse"
    /\ \E i \in 1..Len(manual) : manual[i].metric_type = "pulse"
    /\ apple # <<>>
    /\ Cardinality({k \in 1..Len(cache.rows) : cache.rows[k].metric = "heart_rate"}) >= 2

\* what the three sources hand to the frame when nothing raises
CollectedMetrics == FileMetrics(files) \o ManualMetrics(manual) \o AppleMetrics(apple)

\* the collected dicts whose date and value both survive coercion
Coercible(all_metrics) ==
    SelectSeq(all_metrics,
        LAMBDA r : ToDatetime(r.date) # NaT /\ r.value.kind = "scalar")

\* C12: every row of the unified series has a valid date and a numeric
\* value, the rows are in nondecreasing date order, and the rows are exactly
\* the collected observations whose date and value could be coerced (the
\* others are absent, none is filled in).
C12_SeriesWellFormed ==
    /\ \A row \in RowsOf(cache.rows) : row.date # NaT /\ row.value.kind = "scalar"
    /\ \A i \in 1..(Len(cache.rows) - 1) : cache.rows[i].date <= cache.rows[i + 1].date
    /\ BuiltWithoutRaising =>
          /\ Len(cache.rows) = Len(Coercible(CollectedMetrics))
          /\ \A r \in RowsOf(Coercible(CollectedMetrics)) :
                \E row \in RowsOf(cache.rows) :
                    /\ row.metric = r.metric
                    /\ row.value = r.value
                    /\ row.date = ToDatetime(r.date)

\* a rebuild that dropped an observation and had to reorder the others
C12_Witness ==
    /\ last.op = "refresh_cache" /\ last.input = NoRaise
    /\ Len(cache.rows) >= 2
    /\ Len(cache.rows) < Len(CollectedMetrics)
    /\ \E i \in 1..(Len(Coercible(CollectedMetrics)) - 1) :
          ToDatetime(Coercible(CollectedMetrics)[i].date)
            > ToDatetime(Coercible(CollectedMetrics)[i + 1].date)

\* the series one source alone would give
SeriesOfFile(name) == BuildFrame(FileMetrics([n \in {name} |-> files[n]]))
SeriesOfManual == BuildFrame(ManualMetrics(manual))
SeriesOfApple == BuildFrame(AppleMetrics(apple))

View ==
    LET lo == ToDatetime(last.input.start_date)
        hi == ToDatetime(last.input.end_date)
    IN  { r \in RowsOf(trend_analyzer.data) :
            /\ (last.input.metric = NoArg \/ r.metric = last.input.metric)
            /\ (lo = NaT \/ r.date >= lo)
            /\ (hi = NaT \/ r.date <= hi) }

\* the entries of the result for one metric
EntriesOf(result, metric_name) == {e \in result.trends : e.metric = metric_name}

\* C13: for a non-empty filtered view the result holds exactly one entry per
\* distinct metric of the view; the entry of a metric whose analysis raised
\* is an error entry, and the entry of every other metric is the one the
\* request gives when the raising metric is absent from the series.
C13_OneEntryPerMetricIsolated ==
    (last.op = "analyze_trends" /\ View # {})
      => /\ last.result.keys = {r.metric : r \in View}
         /\ \A m \in last.result.keys : Cardinality(EntriesOf(last.result, m)) = 1
         /\ \A e \in last.result.trends :
               IF e.metric \in last.input.raising
                 THEN e.kind = "error" /\ e.error # ""
                 ELSE e \in AnalyzeTrendsRaising(
                                SelectSeq(trend_analyzer.data,
                                    LAMBDA r : r.metric \notin last.input.raising),
                                last.input.metric, last.input.start_date,
                                last.input.end_date, {}).trends

\* a request in which the analysis of one metric raised and another metric
\* was analysed
C13_Witness ==
    /\ last.op = "analyze_trends"
    /\ \E e \in last.result.trends : e.metric \in last.input.raising /\ e.kind = "error"
    /\ \E e \in last.result.trends : e.kind = "scalar" /\ e.count >= 2

\* C15: when the series is not empty and the filters leave no row, the
\* result carries no error marker.
C15_FilteredEmptyIsNotAnError ==
    (last.op = "analyze_trends" /\ trend_analyzer.data # <<>> /\ View = {})
      => "error" \notin last.result.keys

\* C16: when no source yields an observation the rebuild gives the empty
\* series, and analyze_trends on it answers, for any arguments, with empty
\* trends and a message.
C16_EmptySeriesGivesNoData ==
    CollectedMetrics = <<>>
      => /\ trend_analyzer.data = <<>>
         /\ cache = Frame(<<>>)
         /\ last.op = "analyze_trends"
               => /\ last.result.keys = {"trends", "message"}
                  /\ last.result.trends = {}

\* a filtered request answered over stores that yield nothing
C16_Witness ==
    /\ last.op = "analyze_trends"
    /\ CollectedMetrics = <<>>
    /\ last.input.metric = "glucose"
    /\ last.result.kind = "no_data_message"

\* the values of the view's observations of one metric
ViewOf(metric_name) == {r \in View : r.metric = metric_name}

\* C18: the statistics of a scalar entry describe the filtered observations
\* of its metric: count is their number, latest the value of one with the
\* greatest date, min and max their extremes, and std is 0 when count is 1.
C18_StatisticsDescribeTheView ==
    last.op = "analyze_trends"
      => \A e \in last.result.trends :
            e.kind = "scalar"
              => /\ e.count = Cardinality({k \in 1..Len(trend_analyzer.data) :
                                             trend_analyzer.data[k] \in ViewOf(e.metric)})
                 /\ \E r \in ViewOf(e.metric) :
                       /\ r.value = e.latest
                       /\ \A o \in ViewOf(e.metric) : o.date <= r.date
                 /\ \E r \in ViewOf(e.metric) : r.value.a = e.min
                 /\ \E r \in ViewOf(e.metric) : r.value.a = e.max
                 /\ \A r \in ViewOf(e.metric) : e.min <= r.value.a /\ r.value.a <= e.max
                 /\ e.min <= e.latest.a /\ e.latest.a <= e.max
                 /\ e.count = 1 => e.std.num = 0

\* a request whose start date left one of three glucose observations out,
\* and whose answer also holds a metric observed once
C18_Witness ==
    /\ last.op = "analyze_trends"
    /\ last.input.start_date # NoDate
    /\ \E e \in last.result.trends :
          /\ e.kind = "scalar" /\ e.count = 2 /\ e.min < e.max /\ e.std.num > 0
          /\ Cardinality({k \in 1..Len(trend_analyzer.data) :
                            trend_analyzer.data[k].metric = e.metric}) = 3
    /\ \E e \in last.result.trends :
          e.kind = "scalar" /\ e.count = 1 /\ e.std.num = 0

\* n * x_i - sum(x) and n * y_i - sum(y): the deviations from the means,
\* times n
Centered(values) ==
    [i \in 1..Len(values) |-> Len(values) * values[i] - SeqSum(values)]

Ranks(n) == [i \in 1..n |-> i - 1]

Products(xs, ys) == [i \in 1..Len(xs) |-> xs[i] * ys[i]]

\* C17: the trend of n date-ordered points is insufficient_data exactly when
\* n < 2; otherwise, with s the least-squares slope of the values against
\* their rank (the covariance of rank and value over the variance of the
\* rank), it is increasing iff s > 0.1, decreasing iff s < -0.1, else
\* stable; for two points s = v1 - v0, and [10, 20], [20, 10], [10, 10] give
\* increasing, decreasing, stable.
C17_TrendFollowsSlope ==
    last.op = "calculate_trend"
      => LET values == last.input
             n == Len(values)
             cov == SeqSum(Products(Centered(Ranks(n)), Centered(values)))
             var == SeqSum(Products(Centered(Ranks(n)), Centered(Ranks(n))))
         IN  /\ last.result = "insufficient_data" <=> n < 2
             /\ n >= 2 =>
                  /\ last.result = "increasing" <=> cov > var
                  /\ last.result = "decreasing" <=> cov < -var
                  /\ last.result = "stable" <=> (cov <= var /\ cov >= -var)
             /\ n = 2 => (last.result = "increasing" <=> values[2] - values[1] > 1)
             /\ values = <<100, 200>> => last.result = "increasing"
             /\ values = <<200, 100>> => last.result = "decreasing"
             /\ values = <<100, 100>> => last.result = "stable"

\* three points that are not constant and whose slope is within the
\* thresholds
C17_Witness ==
    /\ last.op = "calculate_trend"
    /\ Len(last.input) = 3
    /\ last.input[1] < last.input[3]
    /\ last.result = "stable"

\* C19: the interpretation of the latest pair (s, d) is that of the first
\* matching branch of: s < 120 and d < 80 normal; s < 130 and d < 80
\* elevated; s < 140 or d < 90 stage 1; s < 180 or d < 120 stage 2; else
\* crisis. (125, 82) is stage 1, and crisis is returned exactly when
\* s >= 180 and d >= 120.
C19_FirstMatchingBranch ==
    last.op = "interpret_blood_pressure"
      => LET s == last.input[Len(last.input)].a
             d == last.input[Len(last.input)].b
             b1 == s < 1200 /\ d < 800
             b2 == s < 1300 /\ d < 800
             b3 == s < 1400 \/ d < 900
             b4 == s < 1800 \/ d < 1200
         IN  /\ b1 => last.result = "normal"
             /\ (~b1 /\ b2) => last.result = "elevated"
             /\ (~b1 /\ ~b2 /\ b3) => last.result = "hypertension_stage_1"
             /\ (~b1 /\ ~b2 /\ ~b3 /\ b4) => last.result = "hypertension_stage_2"
             /\ (~b1 /\ ~b2 /\ ~b3 /\ ~b4) => last.result = "hypertension_crisis"
             /\ (s = 1250 /\ d = 820) => last.result = "hypertension_stage_1"
             /\ last.result = "hypertension_crisis" <=> (s >= 1800 /\ d >= 1200)

\* the pair (125, 82) interpreted after an earlier reading
C19_Witness ==
    /\ last.op = "interpret_blood_pressure"
    /\ Len(last.input) = 2
    /\ last.input[2] = Pair(1250, 820)
    /\ last.result = "hypertension_stage_1"

\* C20: for a snapshot produced from non-empty data, with a metrics in alert
\* and w in warning, the health score is max(0, 100 - 15a - 5w); a snapshot
\* with no alert and no warning, one with no metric at all included, scores
\* 100.
C20_HealthScoreFormula ==
    (last.op = "get_comprehensive_summary" /\ metrics_analyzer.data # <<>>)
      => LET snapshot == last.result.latest_metrics.metrics
             a == Cardinality({e \in snapshot : e.status = "alert"})
             w == Cardinality({e \in snapshot : e.status = "warning"})
         IN  last.result.health_score
               = IF 100 - 15 * a - 5 * w < 0 THEN 0 ELSE 100 - 15 * a - 5 * w

\* the categories a list of recommendations contains
Categories(recommendations) ==
    {recommendations[k] : k \in 1..Len(recommendations)}

\* C21: every comprehensive summary (an answer that is not the no-data
\* error) has the general regular-checkups recommendation; it has the
\* diabetes-prevention one exactly when glucose or hba1c is in its latest
\* snapshot, and the cardiovascular one exactly when blood_pressure is.
C21_RecommendationsFollowSnapshot ==
    (last.op = "get_comprehensive_summary" /\ ~last.result.error)
      => LET present == {e.metric : e \in last.result.latest_metrics.metrics}
             given == Categories(last.result.recommendations)
         IN  /\ "general" \in given
             /\ "diabetes_prevention" \in given
                  <=> ("glucose" \in present \/ "hba1c" \in present)
             /\ "cardiovascular" \in given <=> "blood_pressure" \in present

\* an observation whose date pd.to_datetime accepts
Dated(o) == ToDatetime(o.date) # NaT

\* the persisted files with every observation without a valid date removed
DatedOnly(dir) == [n \in DOMAIN dir |-> SelectSeq(dir[n], Dated)]

\* the observations of all persisted files
Persisted(dir) == UNION { {dir[n][k] : k \in 1..Len(dir[n])} : n \in DOMAIN dir }

\* C22: an observation without a valid date contributes to no analyze_trends
\* and no get_metrics_history result: both are what they would be with the
\* undated observations removed from the sources, and every history point
\* has a date.  For a metric with a dated observation, get_latest_metrics
\* reports the value and date of a dated observation, never an undated one.
C22_UndatedNeverContributes ==
    /\ last.op = "analyze_trends"
         => last.result = AnalyzeTrends(LoadData(DatedOnly(files), manual, apple),
                              last.input.metric, last.input.start_date,
                              last.input.end_date)
    /\ last.op = "get_metrics_history"
         => /\ last.result.metrics
                 = GetMetricsHistory(LoadAllData(DatedOnly(files)),
                                     CutoffDate(now, last.input)).metrics
            /\ \A e \in last.result.metrics :
                 \A k \in 1..Len(e.points) : e.points[k].date # NoDate
    /\ last.op = "get_latest_metrics"
         => \A e \in last.result.metrics :
              (\E o \in Persisted(files) : o.metric = e.metric /\ Dated(o))
                => \E o \in Persisted(files) :
                     /\ o.metric = e.metric /\ Dated(o)
                     /\ o.date = e.date /\ o.value = e.value

\* the latest values were asked for over a file that holds a glucose with a
\* date and a later-saved glucose without one, and glucose is reported
C22_Witness ==
    /\ last.op = "get_latest_metrics"
    /\ \E n \in DOMAIN files : \E i, j \in 1..Len(files[n]) :
          /\ i < j
          /\ files[n][i].metric = "glucose" /\ Dated(files[n][i])
          /\ files[n][j].metric = "glucose" /\ ~Dated(files[n][j])
    /\ \E e \in last.result.metrics : e.metric = "glucose"

\* the lines before line i, at most 20 back, that carry a date
HeadingsBefore(lines, i) ==
    {j \in 1..(i - 1) : i - j <= 20 /\ ExtractDate(lines[j].date) # NoDate}

\* the date the observations of line i are to carry: its own, else that of
\* the nearest date line before it within 20 lines, else none
DateInForce(lines, i) ==
    IF ExtractDate(lines[i].date) # NoDate THEN ExtractDate(lines[i].date)
    ELSE IF HeadingsBefore(lines, i) = {} THEN NoDate
    ELSE LET j == CHOOSE h \in HeadingsBefore(lines, i) :
                      \A g \in HeadingsBefore(lines, i) : g <= h
         IN  ExtractDate(lines[j].date)

\* C23: every observation extracted for a line carries the date found on
\* that line, else the date of the nearest preceding date line at most 20
\* lines before it, else no date; so the observations of one line never
\* carry two different dates (stated for lines whose text occurs once in
\* the document, which is how an observation names its line).
C23_DateOfNearestHeading ==
    last.op = "extract_health_metrics"
      => \A i \in 1..Len(text) :
            OnlyLineWithText(text, i)
              => \A k \in 1..Len(last.result) :
                    last.result[k].raw_text = Strip(text[i])
                      => last.result[k].date = DateInForce(text, i)

\* C24: in the result of one extraction no two observations of the same
\* metric have the same source line text.
C24_OneObservationPerLineText ==
    last.op = "extract_health_metrics"
      => \A k, l \in 1..Len(last.result) :
            ( /\ last.result[k].metric = last.result[l].metric
              /\ last.result[k].raw_text = last.result[l].raw_text )
              => k = l

\* C25: for a line whose only date token is written year-month-day with a
\* four-digit year, '-' or '/' between the parts and valid calendar values,
\* _extract_date returns exactly that year, month and day.
C25_IsoDateReadAsWritten ==
    ( /\ last.op = "_extract_date"
      /\ last.input.form \in {"iso_dash", "iso_slash"}
      /\ ValidDate(last.input.a, last.input.b, last.input.c) )
      => last.result = MkDate(last.input.a, last.input.b, last.input.c)

\* C26: an extraction run that found at least one observation leaves a file
\* of its own, holding what it found, and leaves every file of an earlier
\* run as it was.
C26_EveryRunKeepsItsFile ==
    [][ (last'.op = "extract_health_metrics" /\ last'.count > 0)
          => /\ \A n \in DOMAIN files : n \in DOMAIN files' /\ files'[n] = files[n]
             /\ \E n \in DOMAIN files' \ DOMAIN files : files'[n] = last'.result ]_vars

\* C27: whatever the interleaving of refreshes, constructions, new records
\* and trend requests, the cache slot holds no series or the complete result
\* of a rebuild that has finished; the series a construction took from the
\* cache, and the series analyze_trends reads, are such results too.
C27_CacheHoldsFinishedRebuild ==
    /\ cache.present => cache.rows \in calls.finished
    /\ \A t \in Threads :
          calls.of[t].data.present => calls.of[t].data.rows \in calls.finished
    /\ trend_analyzer.data \in calls.finished

\* a refresh is between two of its source reads, holding a list built from
\* the files and the manual records only, while another thread is about to
\* take the series from the cache, which holds the result of a rebuild
\* begun after the refresh began its own
C27_Witness ==
    \E t, u \in Threads :
        /\ calls.of[t].kind = "refresh" /\ calls.of[t].pc = "load_apple"
        /\ Len(calls.of[t].all_metrics) = 2
        /\ calls.of[u].kind = "construct" /\ calls.of[u].pc = "use_cache"
        /\ cache.present /\ Len(cache.rows) = 3

\* C28: once no construction and no refresh is in progress, the cache holds
\* the series of the rebuild whose source reads began last, and its
\* timestamp is not later than the moment that rebuild was stamped: a
\* rebuild that began earlier has not overwritten it.
C28_LastStartedRebuildWins ==
    ((\A t \in Threads : ~Running(calls.of[t])) /\ cache.present)
      => \A t \in Threads :
            ( /\ calls.of[t].pc = "done"
              /\ calls.of[t].seq > 0
              /\ calls.of[t].seq = calls.rebuilds )
              => /\ cache.rows = calls.of[t].data.rows
                 /\ cacheTs <= calls.of[t].doneAt

\* C29: a trend request, whatever its arguments, leaves the cached series,
\* the cache timestamp and the analyzer instance's own series as they were,
\* and the same request made again straight after it gets the same result
\* and the same summary.
C29_TrendRequestChangesNothing ==
    [][ last'.op = "analyze_trends"
          => /\ cache' = cache
             /\ cacheTs' = cacheTs
             /\ trend_analyzer' = trend_analyzer
             /\ (last.op = "analyze_trends" /\ last.input = last'.input)
                  => /\ last'.result = last.result
                     /\ last'.response = last.response ]_vars

\* glucose from a start date was asked of an instance whose series holds
\* more rows than the request looked at
C29_Witness ==
    /\ last.op = "analyze_trends"
    /\ last.input.metric = "glucose"
    /\ last.result.kind = "trends"
    /\ cache.present
    /\ \E e \in last.result.trends : e.count < Len(trend_analyzer.data)

\* C30: for glucose, hba1c, cholesterol, ldl, triglycerides and bmi, and
\* every value, the aggregator's status is 'normal' exactly when the trend
\* analyzer's interpretation of the value as the latest one is 'normal'.
C30_ClassifiersAgreeOnNormal ==
    (last.op = "classify" /\ last.input.metric \in ClassifiedMetrics)
      => (last.result.status = "normal" <=> last.result.interpretation = "normal")

====
